---- MODULE Spec2Model ----
(***************************************************************************)
(* Route-candidate orchestration of the running-route API (api/route.ts).  *)
(* The repository holds several handler files for the same endpoint; the   *)
(* variable "variant" says which of them serves the request:               *)
(*   p005  src/unnamed/part_005 lines 341-1507 (round trip, park boundary  *)
(*         loop, avoid-major-roads retry, sequential with stagger)         *)
(*   p009  src/unnamed/part_009 (park centre waypoints, sequential)        *)
(*   p003  src/unnamed/part_003 (three calls under Promise.all)            *)
(*   p007  src/unnamed/part_007 lines 354-723 (cache, Promise.all, 502)    *)
(*   p005a src/unnamed/part_005 lines 1-340 (one Router request, two mock  *)
(*         alternates)                                                     *)
(* One behaviour is one HTTP request from arrival to response.  The Router *)
(* (GraphHopper) and Places (Overpass) are the environment: each call gets *)
(* one reply chosen nondeterministically.                                  *)
(***************************************************************************)
EXTENDS Integers, Sequences, FiniteSets, TLC

VARIABLES
  variant,      \* which handler file serves the request
  req,          \* method and JSON body of the request
  ghKey,        \* process.env.GH_KEY || process.env.VITE_GH_KEY is set
  pc,           \* the await the handler is suspended at
  cand,         \* candidate being built (1..3), 0 before the first
  mode,         \* "none" | "out-and-back" | "park" | "standard"
  park,         \* "none" (null) | "usable" | "degenerate" (zero-length ring)
  parkWarning,  \* the handler's parkWarning string, "" for null
  attempt,      \* index into the attempts array of the call in flight
  leg,          \* which Router request the candidate is waiting for
  calls,        \* every Router request sent, in order
  inflight,     \* indices into calls of requests not yet answered
  outcome,      \* per candidate, how its Router requests ended
  lastReply,    \* the Router reply consumed last, "none" before the first
  features,     \* the features built so far (f1, f2, f3)
  response,     \* the HTTP response, status 0 while none was sent
  placesLog,    \* every Places query sent, in order
  radiusIdx,    \* p009: index into radii of the Places query in flight
  cache,        \* p007: the module-level CACHE map, entries in insertion order
  bodyRead,     \* the handler has read or parsed the request body
  calc,         \* a helper function applied on its own: name, argument, result
  now,          \* p007: Date.now(), in milliseconds
  pending,      \* p007: requests that missed the cache and await the Router
  served,       \* p007: the last response sent to one of several requests
  arrived       \* p007: how many of the several requests have arrived

vars ==
  <<variant, req, ghKey, pc, cand, mode, park, parkWarning, attempt, leg,
    calls, inflight, outcome, lastReply, features, response, placesLog,
    radiusIdx, cache,
    bodyRead, calc, now, pending, served, arrived>>

----------------------------------------------------------------------------
(* Program constants *)

NumCandidates ==
  3

(* Bounds of the model *)

MaxSeed ==
  1

Variants ==
  {"p005", "p009", "p003", "p007", "p005a"}

----------------------------------------------------------------------------
(* Strings the code inspects are sequences of characters, so that          *)
(* toLowerCase and includes are computed and not assumed.                  *)

UPPER ==
  <<"A", "B", "C", "D", "E", "F", "G", "H", "I", "J", "K", "L", "M", "N", "O",
    "P", "Q", "R", "S", "T", "U", "V", "W", "X", "Y", "Z">>

LOWER ==
  <<"a", "b", "c", "d", "e", "f", "g", "h", "i", "j", "k", "l", "m", "n", "o",
    "p", "q", "r", "s", "t", "u", "v", "w", "x", "y", "z">>

LIMIT ==
  <<"l", "i", "m", "i", "t">>

toLowerCase(s) ==
  [i \in 1..Len(s) |->
     IF \E k \in 1..26 : UPPER[k] = s[i]
       THEN LOWER[CHOOSE k \in 1..26 : UPPER[k] = s[i]]
       ELSE s[i]]

includes(s, sub) ==
  \E i \in 0..(Len(s) - Len(sub)) : SubSeq(s, i + 1, i + Len(sub)) = sub

(* rateWarning without the toLowerCase *)
rateWarning_caseSensitive(msg) ==
  includes(msg, LIMIT)

(* rateWarning: msg.toLowerCase().includes("limit") *)
rateWarning(msg) ==
  includes(toLowerCase(msg), LIMIT)

(* Warning texts of the features *)
WARN_RATE ==
  "GraphHopper rate limit reached - showing estimated route. Wait a minute and try again."

WARN_FAILED ==
  "Route used mock (GraphHopper failed)."

WARN_NO_KEY ==
  "Using mock (no GH key)."

WARN_PARK_FAILED ==
  "Park loop route failed, showing estimated route."

WARN_PARK_SMALL ==
  "Park boundary was too small/unclear - showing estimated route."

(* the text for the one park name the requests carry *)
WARN_PARK_NAME ==
  "Couldn't find \"Griffith\" nearby - routing to the nearest park instead."

WARN_PARK_NONE ==
  "Park Loop requested, but no nearby park found quickly - using Standard Loop."

----------------------------------------------------------------------------
(* The Router's replies.  "rejected" is the Router refusing the request    *)
(* (the custom_model weighting), "rate" its rate-limit answer.  "timeout"  *)
(* sends no response headers before the caller's abort timer would fire;   *)
(* "slowBody" sends a success status and a path in time, but the body is   *)
(* not completely received when the timer would fire.                      *)

RouterReplies ==
  {"ok", "nocoords", "rejected", "rate", "err500", "timeout", "slowBody"}

(* fetch() has not resolved when the abort timer fires *)
HeadersLate(r) ==
  r = "timeout"

(* resp.json() has not resolved when the abort timer would fire *)
BodyLate(r) ==
  r \in {"timeout", "slowBody"}

(* the body the Router sends holds a path with coordinates *)
HasPath(r) ==
  r \in {"ok", "slowBody"}

ReplyStatus(r) ==
  CASE r = "rejected" -> 400
    [] r = "rate" -> 429
    [] r = "err500" -> 500
    [] OTHER -> 200

ReplyMessage(r) ==
  LET
      MSG_BAD_MODEL ==
          <<"C", "a", "n", "n", "o", "t", " ", "u", "s", "e", " ", "c", "u", "s", "t",
            "o", "m", "_", "m", "o", "d", "e", "l">>
      MSG_API_LIMIT ==
          <<"A", "P", "I", " ", "L", "i", "m", "i", "t", " ", "r", "e", "a", "c", "h",
            "e", "d">>
  IN CASE r = "rejected" -> MSG_BAD_MODEL
       [] r = "rate" -> MSG_API_LIMIT
       [] OTHER -> <<>>

StatusText(n) ==
  CASE n = 400 -> <<"4", "0", "0", ")">>
    [] n = 429 -> <<"4", "2", "9", ")">>
    [] n = 500 -> <<"5", "0", "0", ")">>
    [] OTHER -> <<"2", "0", "0", ")">>

(* ghPost: fetch under the abort timer, the timer cleared as soon as fetch *)
(* resolves, then resp.json() without a timer, then the status.            *)
(* Returns [threw, msg, coords]: coords says whether paths[0] has points.  *)
ghPost(r) ==
  LET
      MSG_ABORTED ==
          <<"T", "h", "i", "s", " ", "o", "p", "e", "r", "a", "t", "i", "o", "n", " ",
            "w", "a", "s", " ", "a", "b", "o", "r", "t", "e", "d">>
      MSG_STATUS_PREFIX ==
          <<"G", "r", "a", "p", "h", "H", "o", "p", "p", "e", "r", " ", "e", "r", "r",
            "o", "r", " ", "(", "s", "t", "a", "t", "u", "s", " ">>
  IN IF HeadersLate(r)
       THEN [threw |-> TRUE, msg |-> MSG_ABORTED, coords |-> FALSE]
       ELSE IF ReplyStatus(r) < 200 \/ ReplyStatus(r) > 299
         THEN [threw |-> TRUE,
               msg |-> IF ReplyMessage(r) # <<>>
                         THEN ReplyMessage(r)
                         ELSE MSG_STATUS_PREFIX \o StatusText(ReplyStatus(r)),
               coords |-> FALSE]
         ELSE [threw |-> FALSE, msg |-> <<>>, coords |-> HasPath(r)]

(* attemptError without the check of the path's coordinates *)
attemptError_coordsUnchecked(r, roundTrip) ==
  IF ghPost(r).threw THEN ghPost(r).msg ELSE <<>>

(* One pass of the body of the attempts loop of graphHopperRoute and       *)
(* ghRoundTrip: the attempt's error message, <<>> when it returned a path. *)
attemptError(r, roundTrip) ==
  LET
      MSG_NO_COORDS ==
          <<"G", "r", "a", "p", "h", "H", "o", "p", "p", "e", "r", " ", "r", "e", "t",
            "u", "r", "n", "e", "d", " ", "n", "o", " ", "c", "o", "o", "r", "d", "i",
            "n", "a", "t", "e", "s">>
      MSG_NO_COORDS_RT ==
          <<"G", "r", "a", "p", "h", "H", "o", "p", "p", "e", "r", " ", "r", "o", "u",
            "n", "d", "_", "t", "r", "i", "p", " ", "r", "e", "t", "u", "r", "n", "e",
            "d", " ", "n", "o", " ", "c", "o", "o", "r", "d", "i", "n", "a", "t", "e",
            "s">>
  IN IF ghPost(r).threw
       THEN ghPost(r).msg
       ELSE IF ~ghPost(r).coords
         THEN (IF roundTrip THEN MSG_NO_COORDS_RT ELSE MSG_NO_COORDS)
         ELSE <<>>

(* attempts whose second entry still carries the hint *)
attempts_hintKept(avoidMajorRoads) ==
  IF avoidMajorRoads THEN <<TRUE, TRUE>> ELSE <<FALSE>>

(* const attempts = avoidMajorRoads ? [weighted, base] : [base]; an entry  *)
(* is TRUE when the body carries AVOID_MAJOR_ROADS_MODEL.                  *)
attempts(avoidMajorRoads) ==
  IF avoidMajorRoads THEN <<TRUE, FALSE>> ELSE <<FALSE>>

----------------------------------------------------------------------------
(* Requests.  A component of startLatLng or targetMeters is described by   *)
(* the JavaScript value it is:                                             *)
(*   startLatLng  "undefined" | "string" (a non-array truthy value)        *)
(*                | "short" (an array of one number) | "pairNaN" (an array *)
(*                of two with a non-numeric component) | "pair" (a, b)     *)
(*   targetMeters "undefined" | "string" | "nan" | "num" (v)               *)

Pair(a, b) ==
  [kind |-> "pair", a |-> a, b |-> b]

NotPair(k) ==
  [kind |-> k, a |-> 0, b |-> 0]

Num(v) ==
  [kind |-> "num", v |-> v]

NotNum(k) ==
  [kind |-> k, v |-> 0]

BaseBody ==
  [method |-> "POST", startLatLng |-> Pair(34, -118), targetMeters |-> Num(5000),
   routeType |-> "loop", elevationPref |-> "flat", directionSeed |-> 0,
   loopAtPark |-> FALSE, parkSearch |-> "", avoidMajorRoads |-> "false"]

(* GET and a method that is neither GET nor POST *)
OtherMethodRequests ==
  {[BaseBody EXCEPT !.method = m] : m \in {"GET", "PUT"}}

(* POSTs whose startLatLng or targetMeters is missing or malformed *)
MalformedRequests ==
  {[BaseBody EXCEPT !.startLatLng = NotPair(k)] :
      k \in {"undefined", "string", "short", "pairNaN"}}
  \cup {[BaseBody EXCEPT !.targetMeters = t] :
      t \in {NotNum("undefined"), NotNum("string"), NotNum("nan"), Num(0), Num(-5000)}}

(* POSTs with valid startLatLng and targetMeters: every combination of the *)
(* options that select the handler's path *)
FlowRequests ==
  {[BaseBody EXCEPT !.routeType = rt, !.loopAtPark = lp, !.parkSearch = ps,
                    !.avoidMajorRoads = am] :
      rt \in {"loop", "out-and-back"}, lp \in BOOLEAN,
      ps \in {"", "Griffith"}, am \in {"true", "false"}}

(* POSTs that vary the values the path does not depend on *)
ValueRequests ==
  {[BaseBody EXCEPT !.startLatLng = p, !.targetMeters = Num(t),
                    !.elevationPref = ep, !.directionSeed = ds] :
      p \in {Pair(34, -118), Pair(-118, 34)}, t \in {1000, 5000},
      ep \in {"flat", "hills"}, ds \in 0..MaxSeed}
  \cup {[BaseBody EXCEPT !.avoidMajorRoads = "absent", !.loopAtPark = lp] :
      lp \in BOOLEAN}

ValidRequests ==
  FlowRequests \cup ValueRequests

Requests ==
  OtherMethodRequests \cup MalformedRequests \cup ValidRequests

(* JavaScript truthiness of the two validated fields *)
Truthy(x) ==
  CASE x.kind = "undefined" -> FALSE
    [] x.kind = "nan" -> FALSE
    [] x.kind = "num" -> x.v # 0
    [] OTHER -> TRUE

IsNumber(x) ==
  x.kind \in {"num", "nan"}

IsArray(x) ==
  x.kind \in {"short", "pairNaN", "pair"}

Abs(n) ==
  IF n < 0 THEN -n ELSE n

(* normalizeLatLon of part_005: [threw, msg, lat, lon]; msg is the message *)
(* of the Error thrown, with label "startLatLng"                           *)
normalizeLatLon(p) ==
  IF ~IsArray(p) \/ p.kind = "short"
    THEN [threw |-> TRUE, msg |-> "Invalid startLatLng: expected [lat, lon]",
          lat |-> 0, lon |-> 0]
    ELSE IF p.kind = "pairNaN"
      THEN [threw |-> TRUE, msg |-> "Invalid startLatLng: lat/lon must be numbers",
            lat |-> 0, lon |-> 0]
      ELSE IF Abs(p.a) > 90 /\ Abs(p.b) <= 90
        THEN [threw |-> FALSE, msg |-> "", lat |-> p.b, lon |-> p.a]
        ELSE [threw |-> FALSE, msg |-> "", lat |-> p.a, lon |-> p.b]

(* Math.round(n / d) for d > 0 *)
RoundDiv(n, d) ==
  (2 * n + d) \div (2 * d)

(* meters1, meters2, meters3 of the handler, in centimetres so that the    *)
(* factors 0.98 and 1.02 stay exact *)
metersCm(targetMeters, i) ==
  CASE i = 1 -> targetMeters * 100
    [] i = 2 -> targetMeters * 98
    [] i = 3 -> targetMeters * 102

(* candidates[seedNum % candidates.length]; -1 stands for undefined *)
baseBearing(pref, seedNum) ==
  LET
      BEARINGS_HILLS ==
          <<25, 70, 115, 160, 205, 250, 295, 340>>
      BEARINGS_FLAT ==
          <<0, 90, 180, 270, 45, 135, 225, 315>>
      candidates == IF pref = "hills" THEN BEARINGS_HILLS ELSE BEARINGS_FLAT
      JsRem(a, b) == IF a >= 0 THEN a % b ELSE -((-a) % b)
      k == JsRem(seedNum, Len(candidates))
  IN IF k >= 0 THEN candidates[k + 1] ELSE -1

(* part_001, line 136: candidates[((seedNum % candidates.length) +        *)
(* candidates.length) % candidates.length]                                 *)
baseBearing_p001(prf, seed) ==
  LET candidates == IF prf = "hills"
                      THEN <<25, 70, 115, 160, 205, 250, 295, 340>>
                      ELSE <<0, 90, 180, 270, 45, 135, 225, 315>>
      rem == IF seed >= 0 THEN seed % Len(candidates)
             ELSE -((-seed) % Len(candidates))
  IN candidates[((rem + Len(candidates)) % Len(candidates)) + 1]

(* bearing, bearing2, bearing3; NaN (undefined + 35) is kept as -1 *)
bearingOf(pref, seedNum, i) ==
  IF baseBearing(pref, seedNum) = -1
    THEN -1
    ELSE baseBearing(pref, seedNum) + 35 * (i - 1)

pref ==
  IF req.elevationPref = "hills" THEN "hills" ELSE "flat"

type ==
  IF req.routeType = "out-and-back" THEN "out-and-back" ELSE "loop"

seedNum ==
  req.directionSeed

----------------------------------------------------------------------------
(* Features.  A feature keeps its provenance tag, its warnings, the target *)
(* distance it was built for and the shape of its geometry.                *)

buildMockFeature(targetCm, shape, warnings) ==
  [source |-> "mock", warnings |-> warnings, targetCm |-> targetCm,
   shape |-> shape]

parseGHFeature(targetCm, shape) ==
  [source |-> "graphhopper", warnings |-> <<>>, targetCm |-> targetCm,
   shape |-> shape]

(* the mockCoords argument: makeOutAndBack or makeLoop *)
mockShape(md) ==
  IF md = "out-and-back" THEN "makeOutAndBack" ELSE "makeLoop"

(* A Router request as sent: round_trip carries distance and seed, a       *)
(* point-to-point request its waypoint chain (named by leg, with the       *)
(* distance and bearing the chain is computed from).                       *)
(* paused: a sleep(GH_STAGGER_MS) completed between the previous Router     *)
(* reply of this request and the sending of this one (TRUE for the first). *)
Call(c, lg, hint, targetCm, rtDistance, seed, bearing, paused) ==
  [cand |-> c, leg |-> lg, hint |-> hint, targetCm |-> targetCm,
   rtDistance |-> rtDistance, seed |-> seed, bearing |-> bearing,
   paused |-> paused]

(* outcome[i]: "none" no Router request was sent for candidate i, "ok" the *)
(* Router returned the path of every leg, "failed" every request of the    *)
(* candidate failed, "partial" a request succeeded but the candidate's     *)
(* Router path was not completed.                                          *)
NoOutcome ==
  [i \in 1..NumCandidates |-> "none"]

(* the candidate's Router path ended with this reply to its last request;  *)
(* earlierOk: an earlier leg of the candidate had succeeded *)
Ended(i, succeeded, earlierOk) ==
  [outcome EXCEPT ![i] =
     IF succeeded THEN "ok" ELSE IF earlierOk THEN "partial" ELSE "failed"]

NoResponse ==
  [status |-> 0, error |-> "", ok |-> FALSE, nfeatures |-> 0]

FeatureCollection(fs) ==
  [status |-> 200, error |-> "", ok |-> FALSE, nfeatures |-> Len(fs)]

ErrorResponse(status, error) ==
  [status |-> status, error |-> error, ok |-> FALSE, nfeatures |-> 0]

(* no response has been sent to any of several requests *)
NoServed ==
  [kind |-> "none", key |-> <<>>, rq |-> <<>>, payload |-> <<>>]

(* no helper function is being applied on its own *)
NoCalc ==
  [fn |-> "none", arg |-> <<>>, done |-> FALSE, out |-> <<>>]

Init ==
  /\ variant \in Variants
  /\ req \in Requests
  /\ ghKey \in BOOLEAN
  /\ pc = "recv"
  /\ cand = 0
  /\ mode = "none"
  /\ park = "none"
  /\ parkWarning = ""
  /\ attempt = 0
  /\ leg = "none"
  /\ calls = <<>>
  /\ inflight = {}
  /\ outcome = NoOutcome
  /\ lastReply = "none"
  /\ features = <<>>
  /\ response = NoResponse
  /\ placesLog = <<>>
  /\ radiusIdx = 0
  /\ cache = <<>>
  /\ bodyRead = FALSE
  /\ calc = NoCalc
  /\ now = 0
  /\ pending = <<>>
  /\ served = NoServed
  /\ arrived = 0

----------------------------------------------------------------------------
(* Places replies: "park" a polygon that pickBestParkFromElements returns, *)
(* "degenerate" a picked ring of zero length (area 0 and perimeter 0 pass  *)
(* the size filter), "unusable" elements without geometry or centre,       *)
(* "empty" no elements, "httpError" a non-success status, "timeout" the    *)
(* abort timer firing, "unparsable" a body that is not JSON, "malformed"   *)
(* JSON whose elements are not objects (null entries).                     *)

PlacesReplies ==
  {"park", "degenerate", "unusable", "empty", "httpError", "timeout",
   "unparsable", "malformed"}

(* a lookup that yields a park whatever Places answers *)
findPark_p005_anyReply(pr) ==
  IF pr = "degenerate" THEN "degenerate" ELSE "usable"

(* a lookup that takes the body of a non-success reply for a park *)
findPark_p005_statusUnchecked(pr) ==
  CASE pr \in {"park", "httpError"} -> "usable"
    [] pr = "degenerate" -> "degenerate"
    [] OTHER -> "none"

(* findNearestParkWithBoundary / findParkByNameWithBoundary followed by    *)
(* the handler's .catch(() => null): the ParkPick or "none" for null       *)
findPark_p005(pr) ==
  CASE pr = "park" -> "usable"
    [] pr = "degenerate" -> "degenerate"
    [] OTHER -> "none"

PlacesQuery(q) ==
  [query |-> q, reply |-> "pending"]

PlacesAnswered(pr) ==
  [placesLog EXCEPT ![Len(placesLog)].reply = pr]

tm ==
  req.targetMeters.v

Frame ==
  UNCHANGED <<variant, req, ghKey, calc, now, pending, served, arrived>>

Respond(r) ==
  /\ pc' = "done"
  /\ response' = r
  /\ UNCHANGED <<cand, mode, park, parkWarning, attempt, leg, calls, inflight,
                 outcome, lastReply, features, placesLog, radiusIdx, cache>>

(* FinishCandidate that sends the FeatureCollection one candidate early *)
FinishCandidate_oneShort(i, f) ==
  /\ features' = Append(features, f)
  /\ IF i < NumCandidates - 1
       THEN pc' = "sleep" /\ response' = response
       ELSE pc' = "done" /\ response' = FeatureCollection(Append(features, f))

(* the feature of candidate i is complete: await sleep, or send the        *)
(* FeatureCollection after the third *)
FinishCandidate(i, f) ==
  /\ features' = Append(features, f)
  /\ IF i < NumCandidates
       THEN pc' = "sleep" /\ response' = response
       ELSE pc' = "done" /\ response' = FeatureCollection(Append(features, f))

----------------------------------------------------------------------------
(* Handler of part_005 *)

avoidMajor_p005 ==
  req.avoidMajorRoads = "true"

(* seedOf with the candidates' seeds one apart from request to request *)
seedOf_overlapping(s, i) ==
  s + (i - 1)

(* handler, lines 1465, 1479, 1493: the seed given to buildRoundTripFeature *)
(* for candidate i, which ghRoundTrip sends as round_trip.seed             *)
seedOf(s, i) ==
  s * 3 + (i - 1)

(* the Router request of candidate i for a leg, as attempt k of attempts   *)
request_p005(i, lg, k, paused) ==
  LET hint == attempts(avoidMajor_p005)[k]
  IN CASE lg = "round_trip" ->
            Call(i, lg, hint, metersCm(tm, i), RoundDiv(metersCm(tm, i), 100),
                 seedOf(seedNum, i), -1, paused)
       [] lg = "out-and-back" ->
            Call(i, lg, hint, metersCm(tm, i), 0, 0, bearingOf(pref, seedNum, i),
                 paused)
       [] OTHER ->
            Call(i, lg, hint, 0, 0, 0, -1, paused)

firstLeg_p005(md) ==
  CASE md = "out-and-back" -> "out-and-back"
    [] md = "park" -> "transit"
    [] OTHER -> "round_trip"

(* buildPointToPointFeature / buildRoundTripFeature / *)
(* buildParkBoundaryLoopFeature up to their first await *)
BeginCandidate_p005(i, md) ==
  /\ cand' = i
  /\ IF ~ghKey
       THEN /\ FinishCandidate(i, buildMockFeature(metersCm(tm, i), mockShape(md),
                                                   <<WARN_NO_KEY>>))
            /\ attempt' = 0
            /\ leg' = "none"
            /\ UNCHANGED <<calls, inflight>>
       ELSE /\ calls' = Append(calls, request_p005(i, firstLeg_p005(md), 1, TRUE))
            /\ inflight' = inflight \cup {Len(calls) + 1}
            /\ attempt' = 1
            /\ leg' = firstLeg_p005(md)
            /\ pc' = "router"
            /\ UNCHANGED <<features, response>>

(* handler, lines 1289-1409: method dispatch, validation, mode selection   *)
handler_p005 ==
  /\ variant = "p005"
  /\ pc = "recv"
  /\ Frame
  /\ bodyRead' = (req.method = "POST")
  /\ IF req.method = "GET"
       THEN Respond([status |-> 200, error |-> "", ok |-> TRUE, nfeatures |-> 0])
     ELSE IF req.method # "POST"
       THEN Respond(ErrorResponse(405, "Use POST"))
     ELSE IF ~Truthy(req.startLatLng)
       THEN Respond(ErrorResponse(400, "Missing startLatLng: [lat,lng]"))
     ELSE IF ~Truthy(req.targetMeters) \/ ~IsNumber(req.targetMeters)
       THEN Respond(ErrorResponse(400, "Missing targetMeters (number)"))
     ELSE IF normalizeLatLon(req.startLatLng).threw
       THEN Respond(ErrorResponse(500, normalizeLatLon(req.startLatLng).msg))
     ELSE IF type = "out-and-back"
       THEN /\ mode' = "out-and-back"
            /\ BeginCandidate_p005(1, "out-and-back")
            /\ UNCHANGED <<park, parkWarning, outcome, lastReply, placesLog, radiusIdx,
                           cache>>
     ELSE IF req.loopAtPark /\ ghKey
       THEN /\ pc' = IF req.parkSearch # "" THEN "placesNamed" ELSE "placesNearest"
            /\ placesLog' = Append(placesLog,
                 PlacesQuery(IF req.parkSearch # "" THEN "named" ELSE "nearest"))
            /\ UNCHANGED <<cand, mode, park, parkWarning, attempt, leg, calls,
                           inflight, outcome, lastReply, features, response,
                           radiusIdx, cache>>
     ELSE /\ mode' = "standard"
          /\ BeginCandidate_p005(1, "standard")
          /\ UNCHANGED <<park, parkWarning, outcome, lastReply, placesLog, radiusIdx,
                           cache>>

(* handler, lines 1391-1458: the Places lookup returns or fails *)
PlacesReply_p005(pr) ==
  /\ variant = "p005"
  /\ pc \in {"placesNamed", "placesNearest"}
  /\ Frame
  /\ UNCHANGED bodyRead
  /\ UNCHANGED <<outcome, lastReply, radiusIdx, cache>>
  /\ IF pc = "placesNamed" /\ findPark_p005(pr) = "none"
       THEN /\ parkWarning' = WARN_PARK_NAME
            /\ pc' = "placesNearest"
            /\ placesLog' = Append(PlacesAnswered(pr), PlacesQuery("nearest"))
            /\ UNCHANGED <<cand, mode, park, attempt, leg, calls, inflight,
                           features, response>>
       ELSE /\ placesLog' = PlacesAnswered(pr)
            /\ park' = findPark_p005(pr)
            /\ parkWarning' = parkWarning
            /\ mode' = IF findPark_p005(pr) # "none" THEN "park" ELSE "standard"
            /\ BeginCandidate_p005(1, mode')

(* the catch blocks of the three feature builders *)
failureWarning_p005(lg, msg) ==
  IF rateWarning(msg)
    THEN WARN_RATE
    ELSE IF lg \in {"transit", "lap"} THEN WARN_PARK_FAILED ELSE WARN_FAILED

(* buildCombinedFeature plus the extraWarning of the park loop builder *)
buildParkFeature_p005(i, extraWarning) ==
  [source |-> "graphhopper",
   warnings |-> IF extraWarning # "" THEN <<extraWarning>> ELSE <<>>,
   targetCm |-> metersCm(tm, i), shape |-> "park"]

(* graphHopperRoute / ghRoundTrip resume with the Router's reply: return   *)
(* the path, or go round the attempts loop, or throw lastErr to the        *)
(* builder's catch *)
RouterReply_p005(r) ==
  /\ variant = "p005"
  /\ pc = "router"
  /\ inflight # {}
  /\ Frame
  /\ UNCHANGED bodyRead
  /\ lastReply' = r
  /\ UNCHANGED <<cand, mode, park, parkWarning, placesLog, radiusIdx, cache>>
  /\ LET err == attemptError(r, leg = "round_trip")
     IN IF err # <<>> /\ attempt < Len(attempts(avoidMajor_p005))
          THEN /\ calls' = Append(calls, request_p005(cand, leg, attempt + 1, FALSE))
               /\ inflight' = {Len(calls) + 1}
               /\ attempt' = attempt + 1
               /\ UNCHANGED <<pc, leg, features, response, outcome>>
          ELSE /\ inflight' = {}
               /\ attempt' = 0
               /\ UNCHANGED calls
               /\ outcome' = IF leg = "transit" /\ err = <<>> /\ park # "degenerate"
                               THEN outcome
                               ELSE Ended(cand,
                                          err = <<>> /\ leg # "transit",
                                          leg = "lap" \/ (leg = "transit" /\ err = <<>>))
               /\ IF err # <<>>
                    THEN /\ FinishCandidate(cand,
                              buildMockFeature(metersCm(tm, cand), mockShape(mode),
                                               <<failureWarning_p005(leg, err)>>))
                         /\ leg' = "none"
                  ELSE IF leg = "transit" /\ park = "degenerate"
                    THEN /\ FinishCandidate(cand,
                              buildMockFeature(metersCm(tm, cand), mockShape(mode),
                                               <<WARN_PARK_SMALL>>))
                         /\ leg' = "none"
                  ELSE IF leg = "transit"
                    THEN /\ pc' = "parkSleep"
                         /\ leg' = "lap"
                         /\ UNCHANGED <<features, response>>
                  ELSE IF leg = "lap"
                    THEN /\ FinishCandidate(cand, buildParkFeature_p005(cand, parkWarning))
                         /\ leg' = "none"
                  ELSE /\ FinishCandidate(cand,
                            parseGHFeature(metersCm(tm, cand), leg))
                       /\ leg' = "none"

(* buildParkBoundaryLoopFeature line 1124: the stagger before the lap *)
ParkSleepDone_p005 ==
  /\ variant = "p005"
  /\ pc = "parkSleep"
  /\ Frame
  /\ UNCHANGED bodyRead
  /\ calls' = Append(calls, request_p005(cand, "lap", 1, TRUE))
  /\ inflight' = {Len(calls) + 1}
  /\ attempt' = 1
  /\ pc' = "router"
  /\ UNCHANGED <<cand, mode, park, parkWarning, leg, outcome, lastReply, features,
                 response, placesLog, radiusIdx, cache>>

(* await sleep(GH_STAGGER_MS) between two candidates *)
SleepDone_p005 ==
  /\ variant = "p005"
  /\ pc = "sleep"
  /\ Frame
  /\ UNCHANGED bodyRead
  /\ BeginCandidate_p005(cand + 1, mode)
  /\ UNCHANGED <<mode, park, parkWarning, outcome, lastReply, placesLog, radiusIdx,
                 cache>>

----------------------------------------------------------------------------
(* Handler of part_009 *)

RADII ==
  <<1200, 2500, 5000>>

(* const avoidMajors = typeof avoidMajorRoads === "boolean" ? ... : true   *)
avoidMajors_p009 ==
  req.avoidMajorRoads # "false"

wantsPark_p009 ==
  req.loopAtPark /\ type = "loop"

(* mkWaypoints: buildParkWaypoints or buildWaypoints *)
request_p009(i, usePark, paused) ==
  Call(i, IF usePark THEN "park" ELSE type, avoidMajors_p009, metersCm(tm, i),
       0, 0, bearingOf(pref, seedNum, i), paused)

(* warnings of buildRouteFeature: the extraWarning first *)
withExtra_p009(extraWarning, ws) ==
  (IF extraWarning # "" THEN <<extraWarning>> ELSE <<>>) \o ws

(* buildRouteFeature up to its await *)
BeginCandidate_p009(i, usePark, extraWarning) ==
  /\ cand' = i
  /\ attempt' = 0
  /\ IF ~ghKey
       THEN /\ FinishCandidate(i, buildMockFeature(metersCm(tm, i), mockShape(type),
                                    withExtra_p009(extraWarning, <<WARN_NO_KEY>>)))
            /\ leg' = "none"
            /\ UNCHANGED <<calls, inflight>>
       ELSE /\ calls' = Append(calls, request_p009(i, usePark, TRUE))
            /\ inflight' = inflight \cup {Len(calls) + 1}
            /\ leg' = IF usePark THEN "park" ELSE type
            /\ pc' = "router"
            /\ UNCHANGED <<features, response>>

(* handler, lines 461-566 *)
handler_p009 ==
  /\ variant = "p009"
  /\ pc = "recv"
  /\ Frame
  /\ bodyRead' = (req.method = "POST")
  /\ IF req.method = "GET"
       THEN Respond([status |-> 200, error |-> "", ok |-> TRUE, nfeatures |-> 0])
     ELSE IF req.method # "POST"
       THEN Respond(ErrorResponse(405, "Use POST"))
     ELSE IF ~Truthy(req.startLatLng)
       THEN Respond(ErrorResponse(400, "Missing startLatLng: [lat,lng]"))
     ELSE IF ~Truthy(req.targetMeters) \/ ~IsNumber(req.targetMeters)
       THEN Respond(ErrorResponse(400, "Missing targetMeters (number)"))
     ELSE IF normalizeLatLon(req.startLatLng).threw
       THEN Respond(ErrorResponse(500, normalizeLatLon(req.startLatLng).msg))
     ELSE IF wantsPark_p009
       THEN /\ pc' = "places"
            /\ radiusIdx' = 1
            /\ placesLog' = Append(placesLog, PlacesQuery("center"))
            /\ UNCHANGED <<cand, mode, park, parkWarning, attempt, leg, calls,
                           inflight, outcome, lastReply, features, response, cache>>
     ELSE /\ mode' = IF type = "out-and-back" THEN "out-and-back" ELSE "standard"
          /\ BeginCandidate_p009(1, FALSE, "")
          /\ UNCHANGED <<park, parkWarning, outcome, lastReply, placesLog, radiusIdx,
                         cache>>

(* findNearestParkCenter: one pass of the loop over radii.  A reply with   *)
(* elements returns (best?.p ?? null); an empty or failed one continues.   *)
PlacesReply_p009(pr) ==
  /\ variant = "p009"
  /\ pc = "places"
  /\ Frame
  /\ UNCHANGED bodyRead
  /\ UNCHANGED <<outcome, lastReply, cache>>
  /\ IF pr \in {"empty", "httpError", "timeout", "unparsable"}
          /\ radiusIdx < Len(RADII)
       THEN /\ radiusIdx' = radiusIdx + 1
            /\ placesLog' = Append(PlacesAnswered(pr), PlacesQuery("center"))
            /\ UNCHANGED <<pc, cand, mode, park, parkWarning, attempt, leg, calls,
                           inflight, features, response>>
       ELSE LET parkCenter == pr \in {"park", "degenerate"}
            IN /\ radiusIdx' = 0
               /\ placesLog' = PlacesAnswered(pr)
               /\ park' = IF parkCenter THEN "usable" ELSE "none"
               /\ parkWarning' = IF parkCenter THEN "" ELSE WARN_PARK_NONE
               /\ mode' = IF parkCenter THEN "park" ELSE "standard"
               /\ BeginCandidate_p009(1, parkCenter, parkWarning')

(* graphHopperRoute of part_009 returns or throws into buildRouteFeature   *)
RouterReply_p009(r) ==
  /\ variant = "p009"
  /\ pc = "router"
  /\ inflight # {}
  /\ Frame
  /\ UNCHANGED bodyRead
  /\ lastReply' = r
  /\ inflight' = {}
  /\ leg' = "none"
  /\ outcome' = Ended(cand, attemptError(r, FALSE) = <<>>, FALSE)
  /\ UNCHANGED <<cand, mode, park, parkWarning, attempt, calls, placesLog,
                 radiusIdx, cache>>
  /\ LET err == attemptError(r, FALSE)
     IN IF err = <<>>
          THEN FinishCandidate(cand,
                 [source |-> "graphhopper",
                  warnings |-> withExtra_p009(parkWarning, <<>>),
                  targetCm |-> metersCm(tm, cand), shape |-> leg])
          ELSE FinishCandidate(cand,
                 buildMockFeature(metersCm(tm, cand), mockShape(type),
                   withExtra_p009(parkWarning,
                     <<IF rateWarning(err) THEN WARN_RATE ELSE WARN_FAILED>>)))

SleepDone_p009 ==
  /\ variant = "p009"
  /\ pc = "sleep"
  /\ Frame
  /\ UNCHANGED bodyRead
  /\ BeginCandidate_p009(cand + 1, mode = "park", parkWarning)
  /\ UNCHANGED <<mode, park, parkWarning, outcome, lastReply, placesLog, radiusIdx,
                 cache>>

----------------------------------------------------------------------------
(* Handler of part_003: the three Router requests run under Promise.all    *)

(* normalizeLatLon of part_003: swap beyond 85, then the bounds check      *)
normalizeLatLon_p003(p) ==
  IF p.kind # "pair"
    THEN [threw |-> TRUE, msg |-> "startLatLng is not numeric", lat |-> 0, lon |-> 0]
    ELSE LET swap == Abs(p.a) > 85 /\ Abs(p.b) <= 85
             lat == IF swap THEN p.b ELSE p.a
             lon == IF swap THEN p.a ELSE p.b
             out == lat < -85 \/ lat > 85 \/ lon < -180 \/ lon > 180
         IN [threw |-> out,
             msg |-> IF out THEN "startLatLng is out of bounds after normalization"
                            ELSE "",
             lat |-> lat, lon |-> lon]

(* buildPoints(bearingDeg): the loop chain does not use the bearing *)
request_p003(i) ==
  Call(i, type, FALSE, tm * 100, 0, 0,
       IF type = "out-and-back" THEN bearingOf(pref, seedNum, i) ELSE -1, TRUE)

(* the mock fallback of lines 284-336 *)
mockFallback_p003 ==
  [i \in 1..NumCandidates |->
     buildMockFeature(metersCm(tm, i), mockShape(type), <<"Using mock (GraphHopper unavailable or failed).">>)]

(* featureFromGh(gh, pref, targetMeters) for the three replies *)
featuresFromGh_p003 ==
  [i \in 1..NumCandidates |-> parseGHFeature(tm * 100, type)]

SendResponse(fs) ==
  /\ features' = fs
  /\ response' = FeatureCollection(fs)
  /\ pc' = "done"

handler_p003 ==
  /\ variant = "p003"
  /\ pc = "recv"
  /\ Frame
  /\ bodyRead' = (req.method = "POST")
  /\ IF req.method = "GET"
       THEN Respond([status |-> 200, error |-> "", ok |-> TRUE, nfeatures |-> 0])
     ELSE IF req.method # "POST"
       THEN Respond(ErrorResponse(405, "Use POST"))
     ELSE IF ~Truthy(req.startLatLng) \/ ~IsArray(req.startLatLng)
             \/ req.startLatLng.kind = "short"
       THEN Respond(ErrorResponse(400, "Missing startLatLng: [lat,lng]"))
     ELSE IF req.targetMeters.kind # "num" \/ req.targetMeters.v <= 0
       THEN Respond(ErrorResponse(400, "Missing targetMeters (number)"))
     ELSE IF normalizeLatLon_p003(req.startLatLng).threw
       THEN Respond(ErrorResponse(500, normalizeLatLon_p003(req.startLatLng).msg))
     ELSE /\ mode' = IF type = "out-and-back" THEN "out-and-back" ELSE "standard"
          /\ UNCHANGED <<cand, park, parkWarning, attempt, leg, outcome, lastReply,
                         placesLog, radiusIdx, cache>>
          /\ IF ghKey
               THEN /\ calls' = <<request_p003(1), request_p003(2), request_p003(3)>>
                    /\ inflight' = {1, 2, 3}
                    /\ pc' = "all"
                    /\ UNCHANGED <<features, response>>
               ELSE /\ SendResponse(mockFallback_p003)
                    /\ UNCHANGED <<calls, inflight>>

(* graphHopperRoute of part_003 keeps its abort timer armed until         *)
(* resp.json() has settled: a body cut off by the abort is caught to {},   *)
(* which with the success status reads as a reply without coordinates.     *)
received_p003(r) ==
  IF BodyLate(r) /\ ~HeadersLate(r) THEN "nocoords" ELSE r

(* graphHopperRoute of part_003 settles one of the three promises: the     *)
(* first rejection ends Promise.all and the catch builds the mock          *)
(* fallback; when all three are fulfilled featureFromGh runs on each and   *)
(* throws on a reply without coordinates.  Replies that arrive after the   *)
(* response was sent are dropped.                                          *)
RouterReply_p003(id, r) ==
  /\ variant = "p003"
  /\ id \in inflight
  /\ Frame
  /\ UNCHANGED bodyRead
  /\ inflight' = inflight \ {id}
  /\ lastReply' = r
  /\ outcome' = [outcome EXCEPT
                   ![id] = IF received_p003(r) = "ok" THEN "ok" ELSE "failed"]
  /\ UNCHANGED <<cand, mode, park, parkWarning, attempt, leg, calls, placesLog,
                 radiusIdx, cache>>
  /\ IF pc # "all"
       THEN UNCHANGED <<pc, features, response>>
     ELSE IF ghPost(received_p003(r)).threw
       THEN SendResponse(mockFallback_p003)
     ELSE IF inflight' # {}
       THEN UNCHANGED <<pc, features, response>>
     ELSE IF \A i \in 1..NumCandidates : outcome'[i] = "ok"
       THEN SendResponse(featuresFromGh_p003)
     ELSE SendResponse(mockFallback_p003)

----------------------------------------------------------------------------
(* Handler of part_007 (second file): cache, Promise.all, 502 on failure   *)

CACHE_TTL_MS ==
  600000

CACHE_MAX ==
  200

(* the fields of a request body that the handler of part_007 reads, the    *)
(* distance in tenths of a metre                                           *)
CacheRequest(start, routeType, targetDm, elevationPref, surfacePref, avoidMaj, seed) ==
  [startLatLng |-> start, routeType |-> routeType, targetDm |-> targetDm,
   elevationPref |-> elevationPref, surfacePref |-> surfacePref,
   avoidMajorRoads |-> avoidMaj, directionSeed |-> seed]

prefOf(rq) ==
  IF rq.elevationPref = "hills" THEN "hills" ELSE "flat"

typeOf(rq) ==
  IF rq.routeType = "out-and-back" THEN "out-and-back" ELSE "loop"

surfaceOf(rq) ==
  IF rq.surfacePref \in {"trail", "road"} THEN rq.surfacePref ELSE "mixed"

(* lines 623-631: JSON.stringify({start, type, targetMeters:                *)
(* Math.round(targetMeters), pref, surface, avoidMaj, seed: seedNum})       *)
cacheKey(rq) ==
  [start |-> rq.startLatLng, type |-> typeOf(rq),
   targetMeters |-> RoundDiv(rq.targetDm, 10), pref |-> prefOf(rq),
   surface |-> surfaceOf(rq), avoidMaj |-> rq.avoidMajorRoads,
   seed |-> rq.directionSeed]

(* the key of the request of the handler's own behaviour *)
cacheKey_p007 ==
  cacheKey(CacheRequest(req.startLatLng, req.routeType, tm * 10, req.elevationPref,
                        "mixed", req.avoidMajorRoads = "true", seedNum))

(* position of the key in the Map, 0 when it is absent *)
cacheIndex(key) ==
  IF \E i \in 1..Len(cache) : cache[i].key = key
    THEN CHOOSE i \in 1..Len(cache) : cache[i].key = key
    ELSE 0

(* cacheGet that never looks at expiresAt *)
cacheGet_noExpiry(key) ==
  IF cacheIndex(key) = 0 THEN {} ELSE {cache[cacheIndex(key)]}

(* cacheGet: the unexpired entry stored under the key, or {} for null *)
cacheGet(key) ==
  IF cacheIndex(key) = 0
    THEN {}
    ELSE IF now > cache[cacheIndex(key)].expiresAt
      THEN {}
      ELSE {cache[cacheIndex(key)]}

(* the Map once cacheGet has returned: an expired hit is deleted *)
cacheAfterGet(key) ==
  IF cacheIndex(key) # 0 /\ cacheGet(key) = {}
    THEN SelectSeq(cache, LAMBDA e : e.key # key)
    ELSE cache

(* cacheSet without the size guard *)
cacheSet_unguarded(c, key, value) ==
  LET entry == [key |-> key, expiresAt |-> now + CACHE_TTL_MS, value |-> value,
                storedAt |-> now]
  IN IF \E i \in 1..Len(c) : c[i].key = key
       THEN [i \in 1..Len(c) |-> IF c[i].key = key THEN entry ELSE c[i]]
       ELSE Append(c, entry)

(* cacheSet: CACHE.set keeps the place of a key the Map already holds and  *)
(* appends a new one; the size guard deletes CACHE.keys().next().value.    *)
(* storedAt is not a field of the code's entry: it records Date.now() of   *)
(* the store for the properties.                                           *)
cacheSet(c, key, value) ==
  LET entry == [key |-> key, expiresAt |-> now + CACHE_TTL_MS, value |-> value,
                storedAt |-> now]
      stored == IF \E i \in 1..Len(c) : c[i].key = key
                  THEN [i \in 1..Len(c) |-> IF c[i].key = key THEN entry ELSE c[i]]
                  ELSE Append(c, entry)
  IN IF Len(stored) > CACHE_MAX THEN Tail(stored) ELSE stored

(* buildPointsForRoute *)
request_p007(i) ==
  Call(i, type, req.avoidMajorRoads = "true", tm * 100, 0, 0,
       bearingOf(pref, seedNum, i), TRUE)

(* results.map: the first feature has no warning, the alternates have one  *)
features_p007 ==
  [i \in 1..NumCandidates |->
     [source |-> "graphhopper",
      warnings |-> IF i = 1 THEN <<>> ELSE <<"Real GraphHopper alternate (different anchor points / bearing).">>,
      targetCm |-> tm * 100, shape |-> type]]

handler_p007 ==
  /\ variant = "p007"
  /\ pc = "recv"
  /\ Frame
  /\ bodyRead' = (req.method = "POST")
  /\ IF req.method = "GET"
       THEN Respond([status |-> 200, error |-> "", ok |-> TRUE, nfeatures |-> 0])
     ELSE IF req.method # "POST"
       THEN Respond(ErrorResponse(405, "Use POST"))
     ELSE IF ~Truthy(req.startLatLng) \/ ~IsArray(req.startLatLng)
             \/ req.startLatLng.kind = "short"
       THEN Respond(ErrorResponse(400, "Missing startLatLng: [lat,lng]"))
     ELSE IF ~Truthy(req.targetMeters) \/ ~IsNumber(req.targetMeters)
       THEN Respond(ErrorResponse(400, "Missing targetMeters (number)"))
     ELSE IF cacheGet(cacheKey_p007) # {}
       THEN /\ SendResponse((CHOOSE e \in cacheGet(cacheKey_p007) : TRUE).value)
            /\ UNCHANGED <<cand, mode, park, parkWarning, attempt, leg, calls,
                           inflight, outcome, lastReply, placesLog, radiusIdx, cache>>
     ELSE IF ~ghKey
       THEN /\ pc' = "done"
            /\ response' = [status |-> 200, error |-> "No GH_KEY set on server.",
                            ok |-> FALSE, nfeatures |-> 0]
            /\ cache' = cacheAfterGet(cacheKey_p007)
            /\ UNCHANGED <<cand, mode, park, parkWarning, attempt, leg, calls,
                           inflight, outcome, lastReply, features, placesLog,
                           radiusIdx>>
     ELSE /\ mode' = IF type = "out-and-back" THEN "out-and-back" ELSE "standard"
          /\ calls' = <<request_p007(1), request_p007(2), request_p007(3)>>
          /\ inflight' = {1, 2, 3}
          /\ pc' = "all"
          /\ cache' = cacheAfterGet(cacheKey_p007)
          /\ UNCHANGED <<cand, park, parkWarning, attempt, leg, outcome, lastReply,
                         features, response, placesLog, radiusIdx>>

(* graphHopperRoute of part_007 reads the body inside the try whose        *)
(* finally clears the abort timer: a body cut off by the abort is caught   *)
(* to {} and the path check throws "no coordinates".                       *)
received_p007(r) ==
  IF BodyLate(r) /\ ~HeadersLate(r) THEN "nocoords" ELSE r

(* graphHopperRoute of part_007 settles one of the three promises: the     *)
(* first rejection (a failed request or a reply without coordinates) ends  *)
(* Promise.all and the handler answers 502; three paths are turned into    *)
(* features, cached and sent.                                              *)
RouterReply_p007(id, r) ==
  /\ variant = "p007"
  /\ id \in inflight
  /\ Frame
  /\ UNCHANGED bodyRead
  /\ inflight' = inflight \ {id}
  /\ lastReply' = r
  /\ outcome' = [outcome EXCEPT
                   ![id] = IF received_p007(r) = "ok" THEN "ok" ELSE "failed"]
  /\ UNCHANGED <<cand, mode, park, parkWarning, attempt, leg, calls, placesLog,
                 radiusIdx>>
  /\ IF pc # "all"
       THEN UNCHANGED <<pc, features, response, cache>>
     ELSE IF attemptError(received_p007(r), FALSE) # <<>>
       THEN /\ pc' = "done"
            /\ response' = ErrorResponse(502, "GraphHopper failed")
            /\ UNCHANGED <<features, cache>>
     ELSE IF inflight' # {}
       THEN UNCHANGED <<pc, features, response, cache>>
     ELSE /\ SendResponse(features_p007)
          /\ cache' = cacheSet(cache, cacheKey_p007, features_p007)

----------------------------------------------------------------------------
(* Handler of part_005 lines 77-340: one Router request for the first      *)
(* feature, mock alternates for the second and third                       *)

(* the distance the geometry of feature i is generated for: makeOutAndBack *)
(* gets targetMeters times 1, 0.98, 1.02 and makeLoop times 1, 0.92, 1.08  *)
geomCm_p005a(i) ==
  IF type = "out-and-back"
    THEN metersCm(tm, i)
    ELSE CASE i = 1 -> tm * 100
           [] i = 2 -> tm * 92
           [] i = 3 -> tm * 108

(* a feature of this handler: targetCm is the distance of its metrics,     *)
(* geomCm the distance its geometry was made for                           *)
feature_p005a(i, source, warnings) ==
  [source |-> source, warnings |-> warnings, targetCm |-> metersCm(tm, i),
   shape |-> IF source = "mock" THEN mockShape(type) ELSE type,
   geomCm |-> geomCm_p005a(i)]

(* the fallback of lines 247-334 *)
mockFallback_p005a ==
  [i \in 1..NumCandidates |->
     feature_p005a(i, "mock", <<IF ghKey THEN "GraphHopper key found, but routing failed - using mock geometry." ELSE "Mock mode: no GH_KEY env var found on server yet.">>)]

(* feature1, feature2, feature3 of lines 170-231 *)
features_p005a ==
  [i \in 1..NumCandidates |->
     IF i = 1 THEN feature_p005a(1, "graphhopper", <<>>)
              ELSE feature_p005a(i, "mock", <<"Alt route is still mock geometry (for now).">>)]

handler_p005a ==
  /\ variant = "p005a"
  /\ pc = "recv"
  /\ Frame
  /\ bodyRead' = (req.method = "POST")
  /\ IF req.method # "POST"
       THEN Respond(ErrorResponse(405, "Use POST"))
     ELSE IF ~Truthy(req.startLatLng) \/ ~IsArray(req.startLatLng)
             \/ req.startLatLng.kind = "short"
       THEN Respond(ErrorResponse(400, "Missing startLatLng: [lat,lng]"))
     ELSE IF ~Truthy(req.targetMeters) \/ ~IsNumber(req.targetMeters)
       THEN Respond(ErrorResponse(400, "Missing targetMeters (number)"))
     ELSE /\ mode' = IF type = "out-and-back" THEN "out-and-back" ELSE "standard"
          /\ UNCHANGED <<cand, park, parkWarning, attempt, leg, outcome, lastReply,
                         placesLog, radiusIdx, cache>>
          /\ IF ghKey
               THEN /\ calls' = <<Call(1, type, FALSE, tm * 100, 0, 0,
                                       IF type = "out-and-back"
                                         THEN baseBearing(pref, seedNum) ELSE -1,
                                       TRUE)>>
                    /\ inflight' = {1}
                    /\ pc' = "router"
                    /\ UNCHANGED <<features, response>>
               ELSE /\ SendResponse(mockFallback_p005a)
                    /\ UNCHANGED <<calls, inflight>>

(* lines 138-245: the fetch has no abort timer, so the Router's reply is   *)
(* awaited for as long as it takes; a non-success status or a reply        *)
(* without coordinates throws into the inner catch                         *)
RouterReply_p005a(r) ==
  /\ variant = "p005a"
  /\ pc = "router"
  /\ inflight # {}
  /\ r # "timeout"
  /\ Frame
  /\ UNCHANGED bodyRead
  /\ lastReply' = r
  /\ inflight' = {}
  /\ outcome' = [outcome EXCEPT ![1] = IF HasPath(r) THEN "ok" ELSE "failed"]
  /\ UNCHANGED <<cand, mode, park, parkWarning, attempt, leg, calls, placesLog,
                 radiusIdx, cache>>
  /\ IF HasPath(r)
       THEN SendResponse(features_p005a)
       ELSE SendResponse(mockFallback_p005a)

Next ==
  \/ handler_p005
  \/ \E pr \in PlacesReplies : PlacesReply_p005(pr)
  \/ \E r \in RouterReplies : RouterReply_p005(r)
  \/ ParkSleepDone_p005
  \/ SleepDone_p005
  \/ handler_p009
  \/ \E pr \in PlacesReplies : PlacesReply_p009(pr)
  \/ \E r \in RouterReplies : RouterReply_p009(r)
  \/ SleepDone_p009
  \/ handler_p003
  \/ \E id \in 1..NumCandidates, r \in RouterReplies : RouterReply_p003(id, r)
  \/ handler_p007
  \/ \E id \in 1..NumCandidates, r \in RouterReplies : RouterReply_p007(id, r)
  \/ handler_p005a
  \/ \E r \in RouterReplies : RouterReply_p005a(r)

Spec ==
  Init /\ [][Next]_vars

(* The handler's continuations run whenever they can, and every outbound   *)
(* call is answered or runs into its abort timer: no step that is enabled  *)
(* is put off forever.                                                     *)
SpecLive ==
  Init /\ [][Next]_vars /\ WF_vars(Next)

----------------------------------------------------------------------------
(* The helper functions, applied on their own to arguments drawn from      *)
(* bounded sets: calc holds the function's name, its argument and, once it *)
(* was applied, its result.                                                *)

(* validateLatLng of part_001, followed by the handler's                   *)
(* const [lat, lng] = startLatLng: no swap, bounds checked                 *)
validateLatLng(p) ==
  IF ~IsArray(p) \/ p.kind = "short"
    THEN [threw |-> TRUE, msg |-> "Invalid startLatLng: expected [lat,lng]",
          lat |-> 0, lon |-> 0]
    ELSE IF p.kind = "pairNaN"
      THEN [threw |-> TRUE, msg |-> "Invalid startLatLng: lat/lng must be numbers",
            lat |-> 0, lon |-> 0]
      ELSE IF p.a < -90 \/ p.a > 90
        THEN [threw |-> TRUE, msg |-> "Invalid startLatLng: lat out of bounds",
              lat |-> 0, lon |-> 0]
        ELSE IF p.b < -180 \/ p.b > 180
          THEN [threw |-> TRUE, msg |-> "Invalid startLatLng: lng out of bounds",
                lat |-> 0, lon |-> 0]
          ELSE [threw |-> FALSE, msg |-> "", lat |-> p.a, lon |-> p.b]

(* const numPts = 70 *)
numPts ==
  70

(* sines and cosines are kept in thousandths *)
TRIG_SCALE ==
  1000

(* Math.sin((i / numPts) * 2 * Math.PI) for i = 0..numPts, in thousandths  *)
SIN70 ==
  <<
    0, 90, 179, 266, 351, 434, 513, 588, 658, 723, 782, 835,
    881, 920, 951, 975, 991, 999, 999, 991, 975, 951, 920, 881,
    835, 782, 723, 658, 588, 513, 434, 351, 266, 179, 90, 0,
    -90, -179, -266, -351, -434, -513, -588, -658, -723, -782, -835, -881,
    -920, -951, -975, -991, -999, -999, -991, -975, -951, -920, -881, -835,
    -782, -723, -658, -588, -513, -434, -351, -266, -179, -90, 0
  >>

(* Math.cos((i / numPts) * 2 * Math.PI) for i = 0..numPts, in thousandths  *)
COS70 ==
  <<
    1000, 996, 984, 964, 936, 901, 858, 809, 753, 691, 623, 551,
    474, 393, 309, 223, 134, 45, -45, -134, -223, -309, -393, -474,
    -551, -623, -691, -753, -809, -858, -901, -936, -964, -984, -996, -1000,
    -996, -984, -964, -936, -901, -858, -809, -753, -691, -623, -551, -474,
    -393, -309, -223, -134, -45, 45, 134, 223, 309, 393, 474, 551,
    623, 691, 753, 809, 858, 901, 936, 964, 984, 996, 1000
  >>

(* 2 * Math.PI in thousandths *)
TWO_PI ==
  6283

(* targetMeters / (2 * Math.PI), in centimetres *)
loopRadius(targetMeters) ==
  (targetMeters * 100 * TRIG_SCALE) \div TWO_PI

(* hillFactor in thousandths: 1 + 0.2 * sin2a for hills, else 1 *)
hillFactor(hilliness, sin2a) ==
  IF hilliness = "hills" THEN TRIG_SCALE + (2 * sin2a) \div 10 ELSE TRIG_SCALE

(* makeLoop of part_005 lines 536-552.  A point is its offset <<east,      *)
(* north>> from startLonLat in centimetres (metersToLon and metersToLat    *)
(* scale the two offsets).  The centre lies one radius north of the start  *)
(* and the angle is a = -PI/2 + (i / numPts) * 2 * PI, so cos a is the     *)
(* sine of the table angle, sin a minus its cosine and sin 2a minus the    *)
(* sine of the doubled table angle.                                        *)
makeLoop(targetMeters, hilliness) ==
  LET radius == loopRadius(targetMeters)
      point(i) ==
        LET cosA == SIN70[i + 1]
            sinA == -COS70[i + 1]
            sin2A == -SIN70[((2 * i) % numPts) + 1]
            r == (radius * hillFactor(hilliness, sin2A)) \div TRIG_SCALE
        IN <<(r * cosA) \div TRIG_SCALE, radius + (r * sinA) \div TRIG_SCALE>>
  IN [k \in 1..(numPts + 1) |-> point(k - 1)]

(* makeLoop of src/vitejs-vite-5fhws3tj/api/route.ts lines 47-61: the      *)
(* angle is a = (i / points) * 2 * PI and the offsets are added to the     *)
(* start itself                                                            *)
makeLoop_vite(targetMeters, hilliness) ==
  LET radius == loopRadius(targetMeters)
      point(i) ==
        LET cosA == COS70[i + 1]
            sinA == SIN70[i + 1]
            sin2A == SIN70[((2 * i) % numPts) + 1]
            r == (radius * hillFactor(hilliness, sin2A)) \div TRIG_SCALE
        IN <<(r * cosA) \div TRIG_SCALE, (r * sinA) \div TRIG_SCALE>>
  IN [k \in 1..(numPts + 1) |-> point(k - 1)]

Max(a, b) ==
  IF a > b THEN a ELSE b

Min(a, b) ==
  IF a < b THEN a ELSE b

SCORE_TARGET_FLAT ==
  60

SCORE_TARGET_HILLS ==
  220

SCORE_TOLERANCE_FLAT ==
  90

SCORE_TOLERANCE_HILLS ==
  160

(* scoreRoute without the Math.max(0, ...) *)
scoreRoute_noFloor(ascentMeters, prf) ==
  LET target == IF prf = "flat" THEN SCORE_TARGET_FLAT ELSE SCORE_TARGET_HILLS
      tolerance == IF prf = "flat" THEN SCORE_TOLERANCE_FLAT ELSE SCORE_TOLERANCE_HILLS
  IN Min(100, RoundDiv(100 * tolerance - 100 * Abs(ascentMeters - target), tolerance))

(* scoreRoute: Math.max(0, Math.min(100, Math.round(100 - (|ascent -       *)
(* target| / tolerance) * 100)))                                           *)
scoreRoute(ascentMeters, prf) ==
  LET target == IF prf = "flat" THEN SCORE_TARGET_FLAT ELSE SCORE_TARGET_HILLS
      tolerance == IF prf = "flat" THEN SCORE_TOLERANCE_FLAT ELSE SCORE_TOLERANCE_HILLS
  IN Max(0, Min(100,
       RoundDiv(100 * tolerance - 100 * Abs(ascentMeters - target), tolerance)))

RECURSIVE ascentUpTo(_, _)
(* the value of ascent after the loop of computeAscent has run up to index *)
(* i (1-based: profile[i] against profile[i - 1])                          *)
ascentUpTo(profile, i) ==
  IF i < 2
    THEN 0
    ELSE LET diff == profile[i] - profile[i - 1]
         IN ascentUpTo(profile, i - 1) + (IF diff > 0 THEN diff ELSE 0)

(* computeAscent that adds every difference *)
computeAscent_anyDiff(profile) ==
  IF Len(profile) < 2 THEN 0 ELSE profile[Len(profile)] - profile[1]

(* computeAscent over the elevations of a profile *)
computeAscent(profile) ==
  ascentUpTo(profile, Len(profile))

(* fakeElevationProfile of part_005, lines 566-577: pts + 1 = 51 samples    *)
(* around base 120 m.  intensity is in hundredths; SIN50[i + 1] is          *)
(* Math.sin((i / 50) * 2 * Math.PI) in ten-thousandths, and the term in    *)
(* 6 * Math.PI reads the same table at 3 * i modulo 50.  from is not a     *)
(* field of the code's sample: it records where the elevation comes from.  *)
fakeElevationProfile(lenMeters, prf, intensity) ==
  LET SIN50 ==
        <<0, 1253, 2487, 3681, 4818, 5878, 6845, 7705, 8443, 9048, 9511, 9823,
          9980, 9980, 9823, 9511, 9048, 8443, 7705, 6845, 5878, 4818, 3681, 2487,
          1253, 0, -1253, -2487, -3681, -4818, -5878, -6845, -7705, -8443, -9048,
          -9511, -9823, -9980, -9980, -9823, -9511, -9048, -8443, -7705, -6845,
          -5878, -4818, -3681, -2487, -1253>>
      amp == (IF prf = "hills" THEN 35 ELSE 8) * intensity
      elev(i) == 120 * 1000000 + amp * SIN50[(i % 50) + 1]
                   + (IF prf = "hills"
                        THEN (amp * 4 * SIN50[((3 * i) % 50) + 1]) \div 10
                        ELSE 0)
  IN [k \in 1..51 |->
        [distanceMeters |-> ((k - 1) * lenMeters) \div 50,
         elevation |-> RoundDiv(elev(k - 1), 1000000),
         from |-> "synthetic"]]

(* elevProfile of parseGHFeature (lines 971-978) and of                    *)
(* buildCombinedFeature (lines 1027-1033): altitudes are the numbers found *)
(* in third place of the Router's coordinates, in tenths of a metre;       *)
(* distances are floored to whole metres.                                  *)
elevProfile(altitudes, total, targetMeters, prf, intensity) ==
  IF Len(altitudes) > 2
    THEN [i \in 1..Len(altitudes) |->
            [distanceMeters |-> ((i - 1) * total) \div (Len(altitudes) - 1),
             elevation |-> RoundDiv(altitudes[i], 10),
             from |-> "router"]]
    ELSE fakeElevationProfile(targetMeters, prf, intensity)

(* elevProfile of the first handler of part_005, lines 152-164: the test   *)
(* is ghElev?.length, and with one altitude step is total / 0 = Infinity   *)
(* and distanceMeters 0 * Infinity = NaN, kept as -1                       *)
elevProfile_p005a(altitudes, total, targetMeters, prf) ==
  IF Len(altitudes) > 0
    THEN [i \in 1..Len(altitudes) |->
            [distanceMeters |-> IF Len(altitudes) = 1 THEN -1
                                 ELSE ((i - 1) * total) \div (Len(altitudes) - 1),
             elevation |-> RoundDiv(altitudes[i], 10),
             from |-> "router"]]
    ELSE fakeElevationProfile(targetMeters, prf, 100)

(* [...toLonLat].reverse() *)
Reverse(s) ==
  [i \in 1..Len(s) |-> s[Len(s) + 1 - i]]

(* Park selection of part_005, lines 425-450 and 744-860.  A point is      *)
(* <<lon, lat>> on an integer grid whose unit projectMeters maps to 1 m.   *)
(* A Places element is [type, geometry, members, name, dist]: geometry and *)
(* members as Overpass returns them, dist the distance in metres that      *)
(* nearestBoundaryPoint finds from the start to its boundary.              *)

(* chunks: the geometries of the member ways of at least 3 points *)
chunksOf(el) ==
  LET usable == SelectSeq(el.members,
                          LAMBDA m : m.type = "way" /\ Len(m.geometry) >= 3)
  IN [i \in 1..Len(usable) |-> usable[i].geometry]

(* The for loop of lines 776-796 from index i on: best is [idx, flip, d],  *)
(* idx 0 for -1 and d -1 for Infinity; Math.hypot is compared by its       *)
(* square.                                                                 *)
RECURSIVE scanChunks(_, _, _, _, _)
scanChunks(chunks, used, last, i, best) ==
  IF i > Len(chunks)
    THEN best
    ELSE IF i \in used
      THEN scanChunks(chunks, used, last, i + 1, best)
      ELSE LET c == chunks[i]
               hyp2(q) == (q[1] - last[1]) * (q[1] - last[1])
                            + (q[2] - last[2]) * (q[2] - last[2])
               dHead == hyp2(c[1])
               dTail == hyp2(c[Len(c)])
               b1 == IF best.d = -1 \/ dHead < best.d
                       THEN [idx |-> i, flip |-> FALSE, d |-> dHead]
                       ELSE best
               b2 == IF dTail < b1.d
                       THEN [idx |-> i, flip |-> TRUE, d |-> dTail]
                       ELSE b1
           IN scanChunks(chunks, used, last, i + 1, b2)

(* the state of extractBoundaryLonLat before it has looked at the element *)
StitchStart ==
  [begun |-> FALSE, finished |-> FALSE, threw |-> FALSE, used |-> {},
   out |-> <<>>, order |-> <<>>]

(* stitchStep that never reverses a way *)
stitchStep_neverFlipped(el, st) ==
  IF ~st.begun
    THEN IF el.type = "way" /\ Len(el.geometry) >= 3
      THEN [st EXCEPT !.begun = TRUE, !.finished = TRUE, !.out = el.geometry]
      ELSE IF el.type = "relation"
        THEN LET chunks == chunksOf(el)
             IN IF Len(chunks) = 1
                  THEN [st EXCEPT !.begun = TRUE, !.finished = TRUE, !.out = chunks[1]]
                  ELSE IF Len(chunks) = 0
                    THEN [st EXCEPT !.begun = TRUE, !.finished = TRUE, !.threw = TRUE]
                    ELSE [st EXCEPT !.begun = TRUE, !.used = {1}, !.out = chunks[1],
                                    !.order = <<[idx |-> 1, flip |-> FALSE]>>]
        ELSE [st EXCEPT !.begun = TRUE, !.finished = TRUE]
    ELSE LET chunks == chunksOf(el)
             best == scanChunks(chunks, st.used, st.out[Len(st.out)], 1,
                                [idx |-> 0, flip |-> FALSE, d |-> -1])
         IN IF best.idx = 0
              THEN [st EXCEPT !.finished = TRUE]
              ELSE [st EXCEPT !.used = @ \cup {best.idx},
                              !.out = @ \o Tail(chunks[best.idx]),
                              !.order = Append(@, [idx |-> best.idx, flip |-> best.flip])]

(* One step of extractBoundaryLonLat (lines 754-808): the first step is    *)
(* the code up to the while loop, each later one is one pass of the loop.  *)
(* With no usable way chunks[0] is undefined and out.push(...chunks[0])    *)
(* throws a TypeError.  order records the ways appended, in order.         *)
stitchStep(el, st) ==
  IF ~st.begun
    THEN IF el.type = "way" /\ Len(el.geometry) >= 3
      THEN [st EXCEPT !.begun = TRUE, !.finished = TRUE, !.out = el.geometry]
      ELSE IF el.type = "relation"
        THEN LET chunks == chunksOf(el)
             IN IF Len(chunks) = 1
                  THEN [st EXCEPT !.begun = TRUE, !.finished = TRUE, !.out = chunks[1]]
                  ELSE IF Len(chunks) = 0
                    THEN [st EXCEPT !.begun = TRUE, !.finished = TRUE, !.threw = TRUE]
                    ELSE [st EXCEPT !.begun = TRUE, !.used = {1}, !.out = chunks[1],
                                    !.order = <<[idx |-> 1, flip |-> FALSE]>>]
        ELSE [st EXCEPT !.begun = TRUE, !.finished = TRUE]
    ELSE LET chunks == chunksOf(el)
             best == scanChunks(chunks, st.used, st.out[Len(st.out)], 1,
                                [idx |-> 0, flip |-> FALSE, d |-> -1])
             next == IF best.flip THEN Reverse(chunks[best.idx]) ELSE chunks[best.idx]
         IN IF best.idx = 0
              THEN [st EXCEPT !.finished = TRUE]
              ELSE [st EXCEPT !.used = @ \cup {best.idx},
                              !.out = @ \o Tail(next),
                              !.order = Append(@, [idx |-> best.idx, flip |-> best.flip])]

(* extractBoundaryLonLat run to its return or its throw *)
RECURSIVE extractBoundaryLonLat(_, _)
extractBoundaryLonLat(el, st) ==
  IF st.finished THEN st ELSE extractBoundaryLonLat(el, stitchStep(el, st))

PARK_MIN_AREA_M2 ==
  25000

PARK_MIN_PERIMETER_M ==
  600

(* Math.sqrt, floored: the largest r of lo..hi with r * r <= n *)
RECURSIVE Isqrt(_, _, _)
Isqrt(n, lo, hi) ==
  IF lo >= hi
    THEN lo
    ELSE LET mid == (lo + hi + 1) \div 2
         IN IF mid * mid <= n THEN Isqrt(n, mid, hi) ELSE Isqrt(n, lo, mid - 1)

(* polygonAreaMeters2, lines 441-450: the shoelace sum over the points,    *)
(* the last joined to the first                                            *)
RECURSIVE shoelace(_, _)
shoelace(poly, i) ==
  IF i > Len(poly)
    THEN 0
    ELSE LET j == (i % Len(poly)) + 1
         IN poly[i][1] * poly[j][2] - poly[j][1] * poly[i][2] + shoelace(poly, i + 1)

polygonAreaMeters2(poly) ==
  IF Len(poly) < 3 THEN 0 ELSE Abs(shoelace(poly, 1)) \div 2

(* polygonPerimeterMeters, lines 425-438: the segments, and the closing    *)
(* one when the ring is open                                               *)
RECURSIVE perimeterUpTo(_, _)
perimeterUpTo(poly, i) ==
  IF i < 2
    THEN 0
    ELSE LET dx == poly[i][1] - poly[i - 1][1]
             dy == poly[i][2] - poly[i - 1][2]
         IN perimeterUpTo(poly, i - 1) + Isqrt(dx * dx + dy * dy, 0, 6000)

polygonPerimeterMeters(poly) ==
  IF Len(poly) < 2
    THEN 0
    ELSE LET first == poly[1]
             last == poly[Len(poly)]
             dx == last[1] - first[1]
             dy == last[2] - first[2]
         IN perimeterUpTo(poly, Len(poly))
              + (IF first # last THEN Isqrt(dx * dx + dy * dy, 0, 6000) ELSE 0)

RECURSIVE bestCandidate(_, _, _, _)
(* bestCandidate that lets a later candidate of equal score win *)
bestCandidate_lastWins(elements, candidates, k, best) ==
  IF k > Len(candidates)
    THEN best
    ELSE LET c == elements[candidates[k]]
             areaM2 == polygonAreaMeters2(extractBoundaryLonLat(c, StitchStart).out)
             score == c.dist * 100 - Min(30000, Isqrt(Max(0, areaM2) * 100, 0, 46000))
         IN bestCandidate(elements, candidates, k + 1,
                          IF best.idx = 0 \/ score <= best.score
                            THEN [idx |-> candidates[k], score |-> score]
                            ELSE best)

(* the for loop of lines 848-855 from candidate k on: best is [idx, score], *)
(* score -1 for Infinity before any candidate; scores are in centimetres   *)
bestCandidate(elements, candidates, k, best) ==
  IF k > Len(candidates)
    THEN best
    ELSE LET c == elements[candidates[k]]
             areaM2 == polygonAreaMeters2(extractBoundaryLonLat(c, StitchStart).out)
             score == c.dist * 100 - Min(30000, Isqrt(Max(0, areaM2) * 100, 0, 46000))
         IN bestCandidate(elements, candidates, k + 1,
                          IF best.idx = 0 \/ score < best.score
                            THEN [idx |-> candidates[k], score |-> score]
                            ELSE best)

(* pickBestParkFromElements, lines 813-860: the place in elements of the   *)
(* park picked, 0 for null; threw when extractBoundaryLonLat threw on an   *)
(* element.  The filter is areaM2 > 0 && areaM2 < PARK_MIN_AREA_M2 and     *)
(* perM > 0 && perM < PARK_MIN_PERIMETER_M.                                *)
pickBestParkFromElements(elements) ==
  LET boundary(i) == extractBoundaryLonLat(elements[i], StitchStart)
      areaM2(i) == polygonAreaMeters2(boundary(i).out)
      perM(i) == polygonPerimeterMeters(boundary(i).out)
      kept(i) ==
        /\ Len(boundary(i).out) >= 3
        /\ ~(areaM2(i) > 0 /\ areaM2(i) < PARK_MIN_AREA_M2)
        /\ ~(perM(i) > 0 /\ perM(i) < PARK_MIN_PERIMETER_M)
      RECURSIVE keep(_)
      keep(i) ==
        IF i > Len(elements) THEN <<>>
        ELSE (IF kept(i) THEN <<i>> ELSE <<>>) \o keep(i + 1)
  IN IF \E i \in 1..Len(elements) : boundary(i).threw
       THEN [threw |-> TRUE, park |-> 0]
       ELSE [threw |-> FALSE,
             park |-> bestCandidate(elements, keep(1), 1, [idx |-> 0, score |-> -1]).idx]

(* findNearestParkWithBoundary as the handler awaits it, lines 1399-1405:  *)
(* .catch(() => null) turns a throw into no park                           *)
findNearestParkWithBoundary(elements) ==
  IF Len(elements) = 0 \/ pickBestParkFromElements(elements).threw
    THEN 0
    ELSE pickBestParkFromElements(elements).park

(* buildOutAndBackWaypoints of part_005, lines 524-532, in whole degrees:  *)
(* [[lat, lon], mid, [lat, lon]] with mid = [lat + metersToLat(oneWay *     *)
(* sin b), lon + metersToLon(oneWay * cos b, lat)].  Bearings are the      *)
(* multiples of 90 of the flat table, whose sine and cosine are 0, 1, -1;  *)
(* the cosine of the latitude is in thousandths for 0, 60 and 89 degrees.  *)
buildOutAndBackWaypoints(lat, lon, targetMeters, bearingDeg) ==
  LET sinB == CASE bearingDeg = 90 -> 1 [] bearingDeg = 270 -> -1 [] OTHER -> 0
      cosB == CASE bearingDeg = 0 -> 1 [] bearingDeg = 180 -> -1 [] OTHER -> 0
      cosLat == CASE lat = 0 -> 1000 [] lat = 60 -> 500 [] OTHER -> 17
      oneWay == targetMeters \div 2
      mid == <<lat + RoundDiv(oneWay * sinB, 110540),
               lon + RoundDiv(oneWay * cosB * 25, (111320 \div 40) * cosLat)>>
  IN <<<<lat, lon>>, mid, <<lat, lon>>>>

(* safePoints of graphHopperRoute, lines 632-635: every point goes through *)
(* normalizeLatLon and is sent as [lon, lat]                               *)
safePoints(points) ==
  [i \in 1..Len(points) |->
     LET n == normalizeLatLon(Pair(points[i][1], points[i][2]))
     IN <<n.lon, n.lat>>]

(* bounds of the arguments *)
(* buildParkBoundaryLoopFeature of part_005, lines 1105-1165, on the path  *)
(* where both Router legs returned.  Distances are whole metres, times     *)
(* whole milliseconds.                                                     *)
PARK_MAX_LAPS ==
  4

(* const loopBudget = Math.max(600, targetMeters - toDistance * 2) *)
loopBudget(targetMeters, toDistance) ==
  Max(600, targetMeters - toDistance * 2)

(* safeLap without the Math.min(PARK_MAX_LAPS, ...) *)
safeLap_uncapped(targetMeters, toDistance, lapDistance) ==
  Max(1, IF lapDistance > 0
           THEN RoundDiv(loopBudget(targetMeters, toDistance), lapDistance)
           ELSE 1)

(* line 1142: Math.max(1, Math.min(PARK_MAX_LAPS, lapDistance > 0 ?        *)
(* Math.round(loopBudget / lapDistance) : 1))                              *)
safeLap(targetMeters, toDistance, lapDistance) ==
  Max(1, Min(PARK_MAX_LAPS,
             IF lapDistance > 0
               THEN RoundDiv(loopBudget(targetMeters, toDistance), lapDistance)
               ELSE 1))

(* lines 1146-1147: for (i < safeLap) loopLonLat.push(...(i === 0 ?        *)
(* lapLonLat : lapLonLat.slice(1)))                                        *)
RECURSIVE loopLonLat(_, _)
loopLonLat(lapLonLat, n) ==
  IF n = 0 THEN <<>>
  ELSE IF n = 1 THEN lapLonLat
  ELSE loopLonLat(lapLonLat, n - 1) \o Tail(lapLonLat)

(* buildParkBoundaryLoop with the way back not reversed *)
buildParkBoundaryLoop_backUnreversed(a) ==
  LET n == safeLap(a.targetMeters, a.toDistance, a.lapDistance)
  IN [laps |-> n,
      coords |-> a.toCoords \o loopLonLat(a.lapCoords, n) \o a.toCoords,
      totalDistance |-> a.toDistance * 2 + a.lapDistance * n,
      totalTime |-> a.toTime * 2 + a.lapTime * n]

(* lines 1142-1165: the lap count, allCoords, totalDistance and totalTime  *)
(* that go into buildCombinedFeature; a holds the target and the two       *)
(* Router paths (distance, time, coordinates)                              *)
buildParkBoundaryLoop(a) ==
  LET n == safeLap(a.targetMeters, a.toDistance, a.lapDistance)
  IN [laps |-> n,
      coords |-> a.toCoords \o loopLonLat(a.lapCoords, n) \o Reverse(a.toCoords),
      totalDistance |-> a.toDistance * 2 + a.lapDistance * n,
      totalTime |-> a.toTime * 2 + a.lapTime * n]

(* buildParkLoopFeature of part_000, lines 933-934 *)
PARK_LAP_TARGET_METERS ==
  1609

loopBudget_p000(targetMeters, toDistance) ==
  Max(500, targetMeters - toDistance * 2)

laps_p000(targetMeters, toDistance) ==
  Max(1, RoundDiv(loopBudget_p000(targetMeters, toDistance), PARK_LAP_TARGET_METERS))

(* line 935: const lapMeters = loopBudget / laps, the lap it asks the      *)
(* Router for, to the metre                                                *)
lapMeters_p000(targetMeters, toDistance) ==
  RoundDiv(loopBudget_p000(targetMeters, toDistance),
           laps_p000(targetMeters, toDistance))

MaxAscent ==
  400

MaxProfileLen ==
  4

MaxLegPoints ==
  3

MaxMembers ==
  3

MaxElements ==
  3

(* the argument record of an application; fields a function does not take *)
(* keep their default                                                      *)
FnArg(p, targetMeters, prf, ascentMeters, profile) ==
  [p |-> p, targetMeters |-> targetMeters, pref |-> prf,
   ascentMeters |-> ascentMeters, profile |-> profile,
   toDistance |-> 0, lapDistance |-> 0, toTime |-> 0, lapTime |-> 0,
   toCoords |-> <<>>, lapCoords |-> <<>>,
   el |-> [type |-> "none", geometry |-> <<>>, members |-> <<>>, name |-> "",
           dist |-> 0],
   elements |-> <<>>, bearingDeg |-> 0, seed |-> 0]

(* distances the Router returns for the transit leg and for one lap *)
TransitDistances ==
  {0, 150, 200, 450, 2200, 6000}

(* the coordinates of a Router path: at least one point, or graphHopperRoute *)
(* would have thrown                                                        *)
LegCoords(points) ==
  UNION {[1..n -> points] : n \in 1..MaxLegPoints}

ParkArg(targetMeters, toDistance, lapDistance) ==
  [FnArg(NotPair("undefined"), targetMeters, "flat", 0, <<>>)
     EXCEPT !.toDistance = toDistance, !.lapDistance = lapDistance]

Pending(fn, arg) ==
  [fn |-> fn, arg |-> arg, done |-> FALSE, out |-> <<>>]

FnInputs ==
  LET
      Degrees ==
          {-200, -181, -180, -118, -91, -90, -88, -86, -85, 0, 34, 85, 86, 88, 90, 91,
           118, 180, 181, 200}
      Elevations ==
          {90, 100, 105, 120}
      CoordArgs ==
          {Pair(a, b) : a \in Degrees, b \in Degrees}
            \cup {NotPair(k) : k \in {"undefined", "string", "short", "pairNaN"}}
      Profiles ==
          UNION {[1..n -> Elevations] : n \in 0..MaxProfileLen}
      LapDistances ==
          {0, 300, 400, 800, 1609, 4000}
      Altitudes ==
          UNION {[1..n -> {1204, 1255}] : n \in 0..MaxProfileLen}
      Geometries ==
          {<<<<0, 0>>, <<5, 0>>, <<10, 0>>>>,
           <<<<10, 0>>, <<10, 5>>, <<10, 10>>>>,
           <<<<10, 10>>, <<10, 5>>, <<10, 0>>>>,
           <<<<10, 10>>, <<0, 10>>, <<0, 0>>>>,
           <<<<0, 0>>, <<0, 10>>, <<10, 10>>>>,
           <<<<10, 0>>, <<12, 0>>>>}
      Members ==
          {[type |-> "way", geometry |-> g] : g \in Geometries}
            \cup {[type |-> "node", geometry |-> <<>>]}
      Square(side) ==
          <<<<0, 0>>, <<side, 0>>, <<side, side>>, <<0, side>>>>
      Park(ty, geometry, members, dist) ==
          [type |-> ty, geometry |-> geometry, members |-> members, name |-> "",
           dist |-> dist]
      Parks ==
          {Park("way", Square(100), <<>>, 20),
           Park("way", <<<<0, 0>>, <<200, 0>>, <<400, 0>>>>, <<>>, 50),
           Park("way", <<<<7, 7>>, <<7, 7>>, <<7, 7>>>>, <<>>, 60),
           Park("way", <<<<0, 0>>, <<125, 0>>, <<125, 200>>, <<0, 200>>>>, <<>>, 150),
           Park("way", Square(200), <<>>, 100),
           Park("way", Square(300), <<>>, 110),
           Park("way", Square(4000), <<>>, 350),
           Park("relation", <<>>,
                <<[type |-> "way", geometry |-> Square(200)]>>, 120),
           Park("relation", <<>>,
                <<[type |-> "way", geometry |-> <<<<10, 0>>, <<12, 0>>>>],
                  [type |-> "node", geometry |-> <<>>]>>, 10),
           Park("way", <<<<10, 0>>, <<12, 0>>>>, <<>>, 5)}
      ElementArg(ty, geometry, members) ==
          [FnArg(NotPair("undefined"), 0, "flat", 0, <<>>)
             EXCEPT !.el.type = ty, !.el.geometry = geometry,
                    !.el.members = members]
  IN {Pending(f, FnArg(p, 0, "flat", 0, <<>>)) :
        f \in {"normalizeLatLon", "normalizeLatLon_p003", "validateLatLng"},
        p \in CoordArgs}
     \cup {Pending(f, FnArg(NotPair("undefined"), t, h, 0, <<>>)) :
        f \in {"makeLoop", "makeLoop_vite"}, t \in {1000, 5000, 10000},
        h \in {"flat", "hills"}}
     \cup {Pending("scoreRoute", FnArg(NotPair("undefined"), 0, h, a, <<>>)) :
        h \in {"flat", "hills"}, a \in (0..MaxAscent) \cup {100000, 1000000}}
     \cup {Pending("computeAscent", FnArg(NotPair("undefined"), 0, "flat", 0, prof)) :
        prof \in Profiles}
     \cup {Pending(f, FnArg(NotPair("undefined"), 5000, h, 0, alts)) :
        f \in {"elevProfile", "elevProfile_p005a"}, h \in {"flat", "hills"},
        alts \in Altitudes}
     \cup {[Pending("extractBoundaryLonLat", ElementArg("relation", <<>>, ms))
             EXCEPT !.out = StitchStart] :
        ms \in UNION {[1..n -> Members] : n \in 0..MaxMembers}}
     \cup {[Pending("extractBoundaryLonLat", ElementArg("way", g, <<>>))
             EXCEPT !.out = StitchStart] :
        g \in Geometries}
     \cup {Pending(f, [FnArg(NotPair("undefined"), 0, "flat", 0, <<>>)
                         EXCEPT !.elements = els]) :
        f \in {"pickBestParkFromElements", "findNearestParkWithBoundary"},
        els \in UNION {[1..n -> Parks] : n \in 0..MaxElements}}
     \cup {Pending("safePoints",
                   [FnArg(Pair(lat, lon), t, "flat", 0, <<>>) EXCEPT !.bearingDeg = b]) :
        lat \in {0, 60, 89}, lon \in {10, -118}, t \in {5000, 221080, 442160},
        b \in {0, 90, 180, 270}}
     \cup {Pending(f, [FnArg(NotPair("undefined"), 0, h, 0, <<>>) EXCEPT !.seed = sd]) :
        f \in {"bearingOf", "baseBearing_p001"}, h \in {"flat", "hills"},
        sd \in {-9, -8, -1, 0, 1, 7, 8, 9}}
     \cup {Pending("safeLap", ParkArg(t, d, l)) :
        t \in {1000, 5000, 10000}, d \in TransitDistances, l \in LapDistances}
     \cup {Pending("laps_p000", ParkArg(t, d, lapMeters_p000(t, d))) :
        t \in {1000, 5000, 10000}, d \in TransitDistances}
     \cup {Pending("buildParkBoundaryLoop",
                   [ParkArg(5000, d, l) EXCEPT !.toTime = 3 * d, !.lapTime = 4 * l,
                                               !.toCoords = tc, !.lapCoords = lc]) :
        d \in {200, 2200}, l \in {800, 4000},
        tc \in LegCoords({"home", "street", "entry"}),
        lc \in LegCoords({"entry", "north", "south"})}

InitFn ==
  /\ variant = "p005"
  /\ req = BaseBody
  /\ ghKey = FALSE
  /\ pc = "idle"
  /\ cand = 0
  /\ mode = "none"
  /\ park = "none"
  /\ parkWarning = ""
  /\ attempt = 0
  /\ leg = "none"
  /\ calls = <<>>
  /\ inflight = {}
  /\ outcome = NoOutcome
  /\ lastReply = "none"
  /\ features = <<>>
  /\ response = NoResponse
  /\ placesLog = <<>>
  /\ radiusIdx = 0
  /\ cache = <<>>
  /\ bodyRead = FALSE
  /\ calc \in FnInputs
  /\ now = 0
  /\ pending = <<>>
  /\ served = NoServed
  /\ arrived = 0

(* the function named fn is applied and its result kept *)
Apply(fn, result) ==
  /\ calc.fn = fn
  /\ ~calc.done
  /\ calc' = [calc EXCEPT !.done = TRUE, !.out = result]
  /\ UNCHANGED <<variant, req, ghKey, pc, cand, mode, park, parkWarning, attempt,
                 leg, calls, inflight, outcome, lastReply, features, response,
                 placesLog, radiusIdx, cache, bodyRead, now, pending, served,
                 arrived>>

(* extractBoundaryLonLat advances by one step *)
StitchStep ==
  /\ calc.fn = "extractBoundaryLonLat"
  /\ ~calc.done
  /\ LET st == stitchStep(calc.arg.el, calc.out)
     IN calc' = [calc EXCEPT !.out = st, !.done = st.finished]
  /\ UNCHANGED <<variant, req, ghKey, pc, cand, mode, park, parkWarning, attempt,
                 leg, calls, inflight, outcome, lastReply, features, response,
                 placesLog, radiusIdx, cache, bodyRead, now, pending, served,
                 arrived>>

NextFn ==
  \/ Apply("normalizeLatLon", normalizeLatLon(calc.arg.p))
  \/ Apply("normalizeLatLon_p003", normalizeLatLon_p003(calc.arg.p))
  \/ Apply("validateLatLng", validateLatLng(calc.arg.p))
  \/ Apply("makeLoop", makeLoop(calc.arg.targetMeters, calc.arg.pref))
  \/ Apply("makeLoop_vite", makeLoop_vite(calc.arg.targetMeters, calc.arg.pref))
  \/ Apply("scoreRoute", scoreRoute(calc.arg.ascentMeters, calc.arg.pref))
  \/ Apply("computeAscent", computeAscent(calc.arg.profile))
  \/ Apply("safeLap",
          safeLap(calc.arg.targetMeters, calc.arg.toDistance, calc.arg.lapDistance))
  \/ Apply("laps_p000", laps_p000(calc.arg.targetMeters, calc.arg.toDistance))
  \/ Apply("buildParkBoundaryLoop", buildParkBoundaryLoop(calc.arg))
  \/ StitchStep
  \/ Apply("bearingOf",
           [i \in 1..NumCandidates |-> bearingOf(calc.arg.pref, calc.arg.seed, i)])
  \/ Apply("baseBearing_p001",
           [i \in 1..NumCandidates |->
              baseBearing_p001(calc.arg.pref, calc.arg.seed) + 35 * (i - 1)])
  \/ Apply("safePoints",
           safePoints(buildOutAndBackWaypoints(calc.arg.p.a, calc.arg.p.b,
                                               calc.arg.targetMeters,
                                               calc.arg.bearingDeg)))
  \/ Apply("pickBestParkFromElements", pickBestParkFromElements(calc.arg.elements))
  \/ Apply("findNearestParkWithBoundary",
           findNearestParkWithBoundary(calc.arg.elements))
  \/ Apply("elevProfile",
          elevProfile(calc.arg.profile, calc.arg.targetMeters, calc.arg.targetMeters,
                      calc.arg.pref, 100))
  \/ Apply("elevProfile_p005a",
          elevProfile_p005a(calc.arg.profile, calc.arg.targetMeters,
                            calc.arg.targetMeters, calc.arg.pref))

SpecFn ==
  InitFn /\ [][NextFn]_vars

(* extractBoundaryLonLat is entered with an element of the Places reply *)
InitStitch ==
  InitFn /\ calc.fn = "extractBoundaryLonLat"

(* extractBoundaryLonLat alone; it is synchronous code, so its loop keeps *)
(* running until it returns                                              *)
SpecFnLive ==
  InitStitch /\ [][StitchStep]_vars /\ WF_vars(StitchStep)

----------------------------------------------------------------------------
(* The cache of part_007 under several requests.  The steps of the handler *)
(* that touch the cache are kept: the lookup on arrival, and the store     *)
(* when the three Router calls of a request that missed have returned.     *)

MaxMs ==
  2

MaxPending ==
  2

MaxArrivals ==
  3

(* what the computation path builds for a request: the three Router        *)
(* requests are made from the start, the type, the unrounded distance, the *)
(* custom model and the three bearings; pref shapes the elevation profile  *)
payload_p007(rq) ==
  [start |-> rq.startLatLng, type |-> typeOf(rq), targetDm |-> rq.targetDm,
   pref |-> prefOf(rq), surface |-> surfaceOf(rq), avoidMaj |-> rq.avoidMajorRoads,
   bearings |-> [i \in 1..NumCandidates |->
                   bearingOf(prefOf(rq), rq.directionSeed, i)]]

(* requests for 5000.2 m, 5000.4 m and 5000.6 m *)
CacheRequests ==
  {CacheRequest(Pair(34, -118), "loop", d, "flat", "mixed", FALSE, 0) :
     d \in {50002, 50004, 50006}}

(* requests of other clients, one key each *)
Filler(k) ==
  CacheRequest(Pair(34, -118), "loop", 50000, "flat", "mixed", FALSE, k)

CacheEntry(rq, storedAt) ==
  [key |-> cacheKey(rq), expiresAt |-> storedAt + CACHE_TTL_MS,
   value |-> payload_p007(rq), storedAt |-> storedAt]

(* A full cache: two requests for 5000.2 m missed together, the first of   *)
(* them was stored at 0, CACHE_MAX - 1 other keys were stored at 1, and    *)
(* the second of them is still waiting for the Router.                     *)
FullCache ==
  [i \in 1..CACHE_MAX |->
     IF i = 1
       THEN CacheEntry(CacheRequest(Pair(34, -118), "loop", 50002, "flat", "mixed",
                                    FALSE, 0), 0)
       ELSE CacheEntry(Filler(i), 1)]

InitCache ==
  /\ variant = "p007"
  /\ req = BaseBody
  /\ ghKey = TRUE
  /\ pc = "idle"
  /\ cand = 0
  /\ mode = "none"
  /\ park = "none"
  /\ parkWarning = ""
  /\ attempt = 0
  /\ leg = "none"
  /\ calls = <<>>
  /\ inflight = {}
  /\ outcome = NoOutcome
  /\ lastReply = "none"
  /\ features = <<>>
  /\ response = NoResponse
  /\ placesLog = <<>>
  /\ radiusIdx = 0
  /\ bodyRead = FALSE
  /\ calc = NoCalc
  /\ served = NoServed
  /\ arrived = 0
  /\ \/ cache = <<>> /\ now = 0 /\ pending = <<>>
     \/ /\ cache = FullCache
        /\ now = 1
        /\ pending = <<CacheRequest(Pair(34, -118), "loop", 50002, "flat", "mixed",
                                     FALSE, 0)>>

CacheFrame ==
  UNCHANGED <<variant, req, ghKey, pc, cand, mode, park, parkWarning, attempt, leg,
              calls, inflight, outcome, lastReply, features, response, placesLog,
              radiusIdx, bodyRead, calc>>

Without(seq, k) ==
  [i \in 1..(Len(seq) - 1) |-> IF i < k THEN seq[i] ELSE seq[i + 1]]

(* Date.now() moves on: by a millisecond, or by the TTL while no request   *)
(* is waiting (a request lasts no longer than its Router timeout)          *)
Tick(d) ==
  /\ now + d <= CACHE_TTL_MS + MaxMs
  /\ d = 1 => (now % CACHE_TTL_MS) < MaxMs
  /\ d = CACHE_TTL_MS => pending = <<>>
  /\ now' = now + d
  /\ CacheFrame
  /\ UNCHANGED <<cache, pending, served, arrived>>

(* handler, lines 623-634: the key, cacheGet, and the cached payload sent  *)
(* on a hit                                                                *)
Arrive(rq) ==
  /\ Len(pending) < MaxPending
  /\ arrived < MaxArrivals
  /\ arrived' = arrived + 1
  /\ CacheFrame
  /\ UNCHANGED now
  /\ IF cacheGet(cacheKey(rq)) # {}
       THEN /\ served' = [kind |-> "hit", key |-> cacheKey(rq), rq |-> rq,
                          payload |-> (CHOOSE e \in cacheGet(cacheKey(rq)) : TRUE).value]
            /\ UNCHANGED <<cache, pending>>
       ELSE /\ cache' = cacheAfterGet(cacheKey(rq))
            /\ pending' = Append(pending, rq)
            /\ UNCHANGED served

(* handler, lines 664-718: Promise.all fulfilled, the payload built,       *)
(* stored and sent                                                         *)
Complete(k) ==
  /\ k \in 1..Len(pending)
  /\ CacheFrame
  /\ UNCHANGED <<now, arrived>>
  /\ cache' = cacheSet(cache, cacheKey(pending[k]), payload_p007(pending[k]))
  /\ pending' = Without(pending, k)
  /\ served' = [kind |-> "fresh", key |-> cacheKey(pending[k]), rq |-> pending[k],
                payload |-> payload_p007(pending[k])]

(* handler, lines 667-680: Promise.all rejected, 502 and nothing stored    *)
Fail(k) ==
  /\ k \in 1..Len(pending)
  /\ CacheFrame
  /\ UNCHANGED <<now, cache, arrived>>
  /\ pending' = Without(pending, k)
  /\ served' = [kind |-> "failed", key |-> cacheKey(pending[k]), rq |-> pending[k],
                payload |-> <<>>]

NextCache ==
  \/ \E d \in {1, CACHE_TTL_MS} : Tick(d)
  \/ \E rq \in CacheRequests \cup {Filler(1)} : Arrive(rq)
  \/ \E k \in 1..MaxPending : Complete(k)
  \/ \E k \in 1..MaxPending : Fail(k)

SpecCache ==
  InitCache /\ [][NextCache]_vars

----------------------------------------------------------------------------
(* Vocabulary of the properties *)

Done ==
  pc = "done"

(* startLatLng is a pair of finite numbers and targetMeters a number > 0   *)
ValidInput ==
  /\ req.startLatLng.kind = "pair"
  /\ req.targetMeters.kind = "num"
  /\ req.targetMeters.v > 0

Post ==
  req.method = "POST"

Contains(ws, w) ==
  \E k \in 1..Len(ws) : ws[k] = w

(* every Places query of the request was answered with no elements *)
PlacesAllEmpty ==
  /\ placesLog # <<>>
  /\ \A k \in 1..Len(placesLog) : placesLog[k].reply = "empty"

----------------------------------------------------------------------------
(* C1: in the handlers of part_005 and part_007, a POST with valid         *)
(* startLatLng and targetMeters is answered 200 with exactly 3 features    *)
(* whatever the Router and Places do and whether or not a key is set.      *)
C1_AlwaysThreeFeatures ==
  (variant \in {"p005", "p007"} /\ Post /\ ValidInput /\ Done)
    => (response.status = 200 /\ response.nfeatures = 3 /\ Len(features) = 3)

(* C2: in part_005, when every Router request of the request fails, all 3  *)
(* features are mock with a non-empty warnings array, in each mode; and a  *)
(* candidate whose surfaced Router failure is the rate-limit reply gets    *)
(* the wait-and-retry warning.                                             *)
C2_state ==
  (variant = "p005" /\ Done /\ response.status = 200
     /\ \A i \in 1..NumCandidates : outcome[i] = "failed")
    => \A i \in 1..NumCandidates :
         features[i].source = "mock" /\ features[i].warnings # <<>>

C2_step ==
  (variant = "p005" /\ pc = "router" /\ inflight # {} /\ inflight' = {}
     /\ lastReply' = "rate")
    => /\ Len(features') = Len(features) + 1
       /\ features'[Len(features')].source = "mock"
       /\ Contains(features'[Len(features')].warnings, WARN_RATE)

C2_AllFailedAllMock ==
  [](C2_state) /\ [][C2_step]_vars

C2_Witness ==
  /\ variant = "p005" /\ Done /\ mode = "park"
  /\ \A i \in 1..NumCandidates : outcome[i] = "failed"
  /\ lastReply = "rate"
  /\ features[3].warnings = <<WARN_RATE>>
  /\ features[1].warnings = <<WARN_PARK_FAILED>>

(* C3: in part_005 and part_003, feature i is Router-derived when the      *)
(* Router requests of candidate i succeeded and synthetic when they        *)
(* failed, whatever happened to the other two candidates.                  *)
C3_Independent ==
  (variant \in {"p005", "p003"} /\ Done /\ response.status = 200
     /\ Len(features) = 3)
    => \A i \in 1..NumCandidates :
         /\ outcome[i] = "ok" => features[i].source = "graphhopper"
         /\ outcome[i] \in {"failed", "partial"} => features[i].source = "mock"

(* C4: in part_005 and part_003, at most one Router request of the request *)
(* is in flight at any time.                                               *)
C4_OneInFlight ==
  variant \in {"p005", "p003"} => Cardinality(inflight) <= 1

(* the Router request whose reply a step of part_005 consumes *)
Answered ==
  CHOOSE k \in inflight : TRUE

ReplyStep_p005 ==
  variant = "p005" /\ pc = "router" /\ inflight # {} /\ inflight' # inflight

SameButHint(c, d) ==
  /\ c.cand = d.cand /\ c.leg = d.leg /\ c.targetCm = d.targetCm
  /\ c.rtDistance = d.rtDistance /\ c.seed = d.seed /\ c.bearing = d.bearing

FailureWarnings ==
  {WARN_RATE, WARN_FAILED, WARN_PARK_FAILED}

(* C5: in part_005, a failed reply to a request that carries the           *)
(* road-weighting hint is followed by exactly one further request, equal   *)
(* to it except that the hint is removed, and no failure is surfaced yet;  *)
(* a failed reply to a request without the hint (the hint disabled, or the *)
(* second request) is followed by no further request of that call and the  *)
(* failure is surfaced; a failure is surfaced only then.                   *)
C5_step ==
  ReplyStep_p005 =>
    LET q == calls[Answered]
        r == lastReply'
        surfaced == /\ Len(features') = Len(features) + 1
                    /\ \E w \in FailureWarnings :
                         Contains(features'[Len(features')].warnings, w)
    IN /\ (q.hint /\ r = "rejected") =>
            /\ Len(calls') = Len(calls) + 1
            /\ SameButHint(calls'[Len(calls')], q)
            /\ ~calls'[Len(calls')].hint
            /\ inflight' = {Len(calls')}
            /\ features' = features
       /\ (~q.hint /\ ~HasPath(r)) => (calls' = calls /\ inflight' = {} /\ surfaced)
       /\ surfaced => (~q.hint /\ ~HasPath(r))

C5_OneRetryWithoutHint ==
  [][C5_step]_vars

C5_Witness ==
  /\ variant = "p005" /\ pc = "router" /\ attempt = 2 /\ inflight # {}
  /\ lastReply = "rejected"
  /\ Len(calls) = 2 /\ calls[1].hint /\ ~calls[2].hint

(* C6: in part_005, a Router request that timed out, was rate-limited or   *)
(* returned no coordinates is never followed by a second request of the    *)
(* same call.                                                              *)
C6_NoOtherRetry ==
  ~(variant = "p005" /\ pc = "router" /\ attempt = 2 /\ inflight # {}
      /\ lastReply \in {"timeout", "rate", "nocoords"})

(* C7: in part_005, a POST whose startLatLng is not a pair of finite       *)
(* numbers or whose targetMeters is not a positive number is answered 400  *)
(* with an error message, and no Router or Places request is made.         *)
C7_InvalidInput400 ==
  (variant = "p005" /\ Post /\ ~ValidInput)
    => /\ calls = <<>>
       /\ placesLog = <<>>
       /\ Done => (response.status = 400 /\ response.error # "")

ParkNotUsedWarnings ==
  {WARN_PARK_NONE, WARN_PARK_FAILED, WARN_PARK_SMALL, WARN_PARK_NAME}

(* C8: in part_005, when a park loop was requested and the Places lookup   *)
(* gave no park, or the Router failed on the transit leg of candidate i,   *)
(* the candidate has a round-trip Router request and its feature carries a *)
(* warning about the park loop.                                            *)
C8_ParkFallback ==
  (variant = "p005" /\ Done /\ Post /\ ValidInput /\ response.status = 200
     /\ type = "loop" /\ req.loopAtPark /\ ghKey)
    => \A i \in 1..NumCandidates :
         ((mode = "standard") \/ (mode = "park" /\ outcome[i] = "failed"))
           => /\ \E k \in 1..Len(calls) :
                   calls[k].cand = i /\ calls[k].leg = "round_trip"
              /\ \E w \in ParkNotUsedWarnings : Contains(features[i].warnings, w)

(* the Router request the standard loop path sends for candidate i *)
PlainCalls(i) ==
  IF variant = "p005"
    THEN {request_p005(i, "round_trip", k, b) :
            k \in 1..Len(attempts(avoidMajor_p005)), b \in BOOLEAN}
    ELSE {request_p009(i, FALSE, TRUE)}

(* the features the standard loop path builds for candidate i *)
PlainFeatures(i) ==
  CASE outcome[i] = "ok" ->
         {parseGHFeature(metersCm(tm, i),
                         IF variant = "p005" THEN "round_trip" ELSE "loop")}
    [] outcome[i] = "failed" ->
         {buildMockFeature(metersCm(tm, i), "makeLoop", <<w>>) :
            w \in {WARN_RATE, WARN_FAILED}}
    [] OTHER ->
         {buildMockFeature(metersCm(tm, i), "makeLoop", <<WARN_NO_KEY>>)}

WithoutParkNotice(f) ==
  IF f.warnings # <<>> /\ f.warnings[1] = WARN_PARK_NONE
    THEN [f EXCEPT !.warnings = Tail(f.warnings)]
    ELSE f

C9_case ==
  /\ variant \in {"p005", "p009"} /\ Done /\ Post /\ ValidInput
  /\ type = "loop" /\ req.loopAtPark /\ PlacesAllEmpty

(* C9 as stated: in part_005 and part_009, when every Places query returns *)
(* no elements, a loop request with loopAtPark true ends with the Router   *)
(* round-trip requests and the 3 features of the standard loop path.       *)
C9_SameAsStandard ==
  C9_case =>
    /\ response.status = 200 /\ Len(features) = NumCandidates
    /\ \A k \in 1..Len(calls) :
         calls[k].leg = "round_trip" /\ calls[k] \in PlainCalls(calls[k].cand)
    /\ \A i \in 1..NumCandidates :
         /\ ghKey => \E k \in 1..Len(calls) : calls[k].cand = i
         /\ features[i] \in PlainFeatures(i)

(* C9 amended: in part_005 and part_009, when every Places query returns   *)
(* no elements, a loop request with loopAtPark true sends the Router       *)
(* requests of the standard loop path and ends with its 3 features, except *)
(* that a feature's warnings may begin with the no-park-found notice.      *)
C9_SameUpToNotice ==
  C9_case =>
    /\ response.status = 200 /\ Len(features) = NumCandidates
    /\ \A k \in 1..Len(calls) : calls[k] \in PlainCalls(calls[k].cand)
    /\ \A i \in 1..NumCandidates :
         /\ ghKey => \E k \in 1..Len(calls) : calls[k].cand = i
         /\ WithoutParkNotice(features[i]) \in PlainFeatures(i)

C9_Witness ==
  /\ C9_case /\ variant = "p009" /\ ghKey
  /\ Len(placesLog) = Len(RADII)
  /\ features[1].warnings = <<WARN_PARK_NONE>>
  /\ features[2].warnings = <<WARN_PARK_NONE, WARN_RATE>>

(* C10: in part_005 and part_007, every feature has a warnings array that  *)
(* is non-empty when the feature is mock and empty when it is              *)
(* Router-derived with nothing degraded.                                   *)
C10_WarningsEmptyIffClean ==
  (variant \in {"p005", "p007"} /\ Done /\ response.status = 200)
    => \A i \in 1..Len(features) :
         /\ features[i].source = "mock" => features[i].warnings # <<>>
         /\ (features[i].source = "graphhopper" /\ outcome[i] = "ok"
               /\ parkWarning = "")
              => features[i].warnings = <<>>

(* C11: in part_005 (both handlers) and part_003, the distance of          *)
(* candidate i in its distance-bearing Router request, in the geometry of  *)
(* its feature and in its metrics is 1.00, 0.98, 1.02 times targetMeters   *)
(* for i = 1, 2, 3.                                                        *)
C11_JitteredDistances ==
  (variant \in {"p005", "p005a", "p003"} /\ Post /\ ValidInput)
    => /\ \A k \in 1..Len(calls) :
            calls[k].leg \in {"round_trip", "loop", "out-and-back"}
              => calls[k].targetCm = metersCm(tm, calls[k].cand)
       /\ \A i \in 1..Len(features) :
            /\ features[i].targetCm = metersCm(tm, i)
            /\ variant = "p005a" => features[i].geomCm = metersCm(tm, i)

(* C12: in both handlers of part_005, a GET is answered 200 with ok: true, *)
(* and no Router request, no Places request and no read of the body is    *)
(* made for it.                                                            *)
C12_GetIsAlive ==
  (variant \in {"p005", "p005a"} /\ req.method = "GET")
    => /\ calls = <<>> /\ placesLog = <<>> /\ ~bodyRead
       /\ Done => (response.status = 200 /\ response.ok)

GENERIC_ERROR ==
  "Server error"

(* C13: in part_005, the error text of a 500 response is the fixed generic *)
(* message, whatever exception was thrown.                                 *)
C13_GenericServerError ==
  (variant = "p005" /\ response.status = 500) => response.error = GENERIC_ERROR

CoordFns ==
  {"normalizeLatLon", "normalizeLatLon_p003", "validateLatLng"}

(* C14: normalizeLatLon of part_005 and of part_003 return (b, a) for a    *)
(* numeric pair (a, b) with |a| > 90 and |b| <= 90, and (a, b) unchanged   *)
(* when |a| <= 90 and |b| <= 90.                                           *)
C14_SwapRule ==
  (calc.done /\ calc.fn \in {"normalizeLatLon", "normalizeLatLon_p003"}
     /\ calc.arg.p.kind = "pair")
    => LET a == calc.arg.p.a
           b == calc.arg.p.b
           o == calc.out
       IN /\ (Abs(a) > 90 /\ Abs(b) <= 90)
               => (~o.threw /\ o.lat = b /\ o.lon = a)
          /\ (Abs(a) <= 90 /\ Abs(b) <= 90)
               => (~o.threw /\ o.lat = a /\ o.lon = b)

(* C15: normalizeLatLon of part_005 and of part_003 and validateLatLng of  *)
(* part_001 fail on an argument that is not a pair of numbers, and a       *)
(* coordinate they return has its latitude within +/-90 and its longitude  *)
(* within +/-180.                                                          *)
C15_InBoundsOrFails ==
  (calc.done /\ calc.fn \in CoordFns)
    => /\ calc.arg.p.kind # "pair" => calc.out.threw
       /\ ~calc.out.threw
            => (Abs(calc.out.lat) <= 90 /\ Abs(calc.out.lon) <= 180)

(* C16: makeLoop of part_005 and of the vitejs route.ts returns 71 points  *)
(* whose first and last are the start point, for flat and hills and every  *)
(* target distance.                                                        *)
C16_ClosedRingAtOrigin ==
  (calc.done /\ calc.fn \in {"makeLoop", "makeLoop_vite"})
    => /\ Len(calc.out) = 71
       /\ calc.out[1] = <<0, 0>>
       /\ calc.out[Len(calc.out)] = <<0, 0>>

(* C17: scoreRoute returns an integer from 0 to 100 for every ascent, and  *)
(* 100 when the ascent is the target of the preference (60 flat, 220       *)
(* hills).                                                                 *)
C17_ScoreClamped ==
  (calc.done /\ calc.fn = "scoreRoute")
    => /\ calc.out \in 0..100
       /\ (calc.arg.pref = "flat" /\ calc.arg.ascentMeters = 60) => calc.out = 100
       /\ (calc.arg.pref = "hills" /\ calc.arg.ascentMeters = 220) => calc.out = 100

C17_Witness ==
  /\ calc.done /\ calc.fn = "scoreRoute"
  /\ calc.arg.ascentMeters = 1000000
  /\ calc.out = 0

RECURSIVE SumPositiveDiffs(_)
SumPositiveDiffs(profile) ==
  IF Len(profile) < 2
    THEN 0
    ELSE Max(0, profile[2] - profile[1]) + SumPositiveDiffs(Tail(profile))

Increasing(profile) ==
  \A i \in 2..Len(profile) : profile[i] > profile[i - 1]

Decreasing(profile) ==
  \A i \in 2..Len(profile) : profile[i] < profile[i - 1]

(* C18: computeAscent returns the sum of the positive differences of       *)
(* consecutive elevations: last minus first on an increasing profile and 0 *)
(* on a decreasing one.                                                    *)
C18_AscentIsPositiveDiffs ==
  (calc.done /\ calc.fn = "computeAscent")
    => LET prof == calc.arg.profile
       IN /\ calc.out = SumPositiveDiffs(prof)
          /\ (Len(prof) >= 2 /\ Increasing(prof))
               => calc.out = prof[Len(prof)] - prof[1]
          /\ (Len(prof) >= 2 /\ Decreasing(prof)) => calc.out = 0

C18_Witness ==
  /\ calc.done /\ calc.fn = "computeAscent"
  /\ calc.arg.profile = <<120, 105, 100, 90>>
  /\ calc.out = 0

(* the letters l, i, m, i, t in either case, consecutively, somewhere in msg *)
LimitAnyCase(msg) ==
  \E i \in 0..(Len(msg) - Len(LIMIT)) :
    \A j \in 1..Len(LIMIT) :
      \E k \in 1..26 : LOWER[k] = LIMIT[j] /\ msg[i + j] \in {LOWER[k], UPPER[k]}

(* what the Router did to the request: a non-success status, a body        *)
(* without coordinates, or no response before the abort timer              *)
RouterFailure(r) ==
  \/ ReplyStatus(r) < 200 \/ ReplyStatus(r) > 299
  \/ ~HasPath(r)
  \/ HeadersLate(r)

(* C19: in part_005, a non-success status, a path without coordinates and  *)
(* a timeout are each a failure of the Router call: the reply is followed  *)
(* by the retry or is surfaced as a mock feature with a failure warning,   *)
(* and no other reply is; a surfaced failure carries the rate-limit        *)
(* warning exactly when its message contains "limit" in any letter case,   *)
(* and the warning that the Router is unavailable otherwise.               *)
C19_step ==
  ReplyStep_p005 =>
    LET q == calls[Answered]
        r == lastReply'
        msg == attemptError(r, q.leg = "round_trip")
        retried == Len(calls') = Len(calls) + 1
        surfaced == /\ Len(features') = Len(features) + 1
                    /\ features'[Len(features')].source = "mock"
                    /\ \E w \in FailureWarnings :
                         Contains(features'[Len(features')].warnings, w)
    IN /\ RouterFailure(r) <=> (retried \/ surfaced)
       /\ surfaced =>
            features'[Len(features')].warnings =
              IF LimitAnyCase(msg)
                THEN <<WARN_RATE>>
                ELSE IF q.leg \in {"transit", "lap"}
                  THEN <<WARN_PARK_FAILED>>
                  ELSE <<WARN_FAILED>>

C19_FailureClassified ==
  [][C19_step]_vars

C19_Witness ==
  /\ variant = "p005" /\ inflight = {} /\ lastReply = "nocoords"
  /\ features # <<>>
  /\ features[Len(features)].source = "mock"
  /\ Contains(features[Len(features)].warnings, WARN_FAILED)
  /\ \E i \in 1..Len(features) : Contains(features[i].warnings, WARN_RATE)

(* C20: in part_005, every Router call is bounded by the abort timer of    *)
(* GH_TIMEOUT_MS: a reply that is not completely received and read when    *)
(* the timer would fire (its headers or its body are late) is cancelled    *)
(* and ends as a failure of the call, retried or surfaced as a mock        *)
(* feature, never as a routed path.                                        *)
C20_step ==
  ReplyStep_p005 =>
    LET retried == Len(calls') = Len(calls) + 1
        surfaced == /\ Len(features') = Len(features) + 1
                    /\ features'[Len(features')].source = "mock"
                    /\ \E w \in FailureWarnings :
                         Contains(features'[Len(features')].warnings, w)
    IN BodyLate(lastReply') => (retried \/ surfaced)

C20_CallBoundedByTimer ==
  [][C20_step]_vars

(* the candidate has left its Router call for good *)
CandidateFinal(i) ==
  \/ features[i].source = "graphhopper" /\ outcome[i] = "ok"
  \/ features[i].source = "mock" /\ outcome[i] \in {"failed", "partial", "none"}

C21_Answered ==
  /\ Done /\ response.status = 200 /\ response.nfeatures = NumCandidates
  /\ Len(features) = NumCandidates
  /\ \A i \in 1..NumCandidates : CandidateFinal(i)

(* C21: in part_005, every POST with valid input is eventually answered,   *)
(* with status 200 and 3 features, each candidate having ended either with *)
(* the Router's path or, after its Router call failed or was not made,     *)
(* with the synthetic fallback; and once a response is sent it is never    *)
(* replaced by another.                                                    *)
C21_EventuallyOneResponse ==
  /\ (variant = "p005" /\ Post /\ ValidInput /\ pc = "recv") ~> C21_Answered
  /\ [][(variant = "p005" /\ response # NoResponse) => response' = response]_vars

C21_Witness ==
  /\ variant = "p005" /\ Post /\ ValidInput /\ C21_Answered
  /\ outcome[1] = "ok" /\ outcome[2] = "failed" /\ mode = "park"

(* the two requests put the same parameters before the Router *)
SameParameters(c, d) ==
  /\ c.leg = d.leg /\ c.hint = d.hint /\ c.targetCm = d.targetCm
  /\ c.rtDistance = d.rtDistance /\ c.seed = d.seed /\ c.bearing = d.bearing

(* C22: in part_005, in every mode, no two Router requests that belong to  *)
(* different candidates of the request carry the same parameters.          *)
C22_DistinctCandidates ==
  variant = "p005" =>
    \A k, l \in 1..Len(calls) :
      calls[k].cand # calls[l].cand => ~SameParameters(calls[k], calls[l])

(* direction seeds another request can carry *)
OtherSeeds ==
  (0..MaxSeed) \ {req.directionSeed}

(* C23: in part_005, the round-trip request of candidate i (counted from   *)
(* 0) of a request with direction seed s carries the seed 3*s + i; the     *)
(* seeds of two candidates of the request differ, and none of them is a    *)
(* seed that the handler sends for a request with another direction seed.  *)
C23_SeedsDisjoint ==
  variant = "p005" =>
    \A k \in 1..Len(calls) :
      calls[k].leg = "round_trip" =>
        /\ calls[k].seed = 3 * req.directionSeed + (calls[k].cand - 1)
        /\ \A l \in 1..Len(calls) :
             (calls[l].leg = "round_trip" /\ calls[l].cand # calls[k].cand)
               => calls[l].seed # calls[k].seed
        /\ \A s \in OtherSeeds, j \in 1..NumCandidates :
             seedOf(s, j) # calls[k].seed

C23_Witness ==
  /\ variant = "p005" /\ Done /\ req.directionSeed = 1
  /\ Len(calls) = NumCandidates
  /\ \A k \in 1..NumCandidates :
       calls[k].leg = "round_trip" /\ calls[k].cand = k

(* n is budget / lapDistance rounded to the nearest whole number, halves up *)
NearestWhole(n, budget, lapDistance) ==
  /\ 2 * n * lapDistance - lapDistance <= 2 * budget
  /\ 2 * budget < 2 * n * lapDistance + lapDistance

(* C24: the lap count of a park loop (part_005 and part_000) is a whole     *)
(* number from 1 to 4: with budget = max(600, target - 2 * transit), it is  *)
(* round(budget / lap distance) when that lies within 1..4, 1 when it is    *)
(* below, 4 when it is above, and 1 when the lap distance is 0.             *)
C24_LapCount ==
  (calc.fn \in {"safeLap", "laps_p000"} /\ calc.done) =>
    LET n == calc.out
        lap == calc.arg.lapDistance
        budget == IF calc.arg.targetMeters - 2 * calc.arg.toDistance > 600
                    THEN calc.arg.targetMeters - 2 * calc.arg.toDistance
                    ELSE 600
    IN /\ n \in 1..4
       /\ lap = 0 => n = 1
       /\ lap > 0 =>
            \/ NearestWhole(n, budget, lap)
            \/ n = 1 /\ 2 * budget < lap
            \/ n = 4 /\ 2 * budget >= 9 * lap

(* point j of n rounds of the lap, the point shared by two rounds counted   *)
(* once                                                                     *)
LapPoint(lap, j) ==
  IF j <= Len(lap) THEN lap[j] ELSE lap[((j - Len(lap) - 1) % (Len(lap) - 1)) + 2]

(* C25: in part_005, the geometry of a park-boundary loop is the transit    *)
(* leg, then N rounds of the lap, then the transit leg backwards, so it     *)
(* starts and ends at the same coordinate; its total distance and its       *)
(* total time are 2 times the transit leg's plus N times the lap's.         *)
C25_Stitched ==
  (calc.fn = "buildParkBoundaryLoop" /\ calc.done) =>
    LET g == calc.out.coords
        n == calc.out.laps
        to == calc.arg.toCoords
        lap == calc.arg.lapCoords
        mid == Len(lap) + (n - 1) * (Len(lap) - 1)
    IN /\ Len(g) = 2 * Len(to) + mid
       /\ g[1] = g[Len(g)]
       /\ \A i \in 1..Len(to) : g[i] = to[i] /\ g[Len(g) + 1 - i] = to[i]
       /\ \A j \in 1..mid : g[Len(to) + j] = LapPoint(lap, j)
       /\ calc.out.totalDistance = 2 * calc.arg.toDistance + n * calc.arg.lapDistance
       /\ calc.out.totalTime = 2 * calc.arg.toTime + n * calc.arg.lapTime

C25_Witness ==
  /\ calc.fn = "buildParkBoundaryLoop" /\ calc.done
  /\ calc.out.laps = 4
  /\ calc.arg.toCoords = <<"home", "street", "entry">>
  /\ calc.arg.lapCoords = <<"entry", "north", "entry">>
  /\ calc.out.coords[Len(calc.out.coords)] = "home"

(* C26: in part_005, when the park name of the request matched no park and *)
(* the nearest park is used instead, each of the 3 features of the         *)
(* response carries the not-found-using-nearest warning, Router-derived    *)
(* or mock.                                                                *)
C26_NameWarningOnAll ==
  (variant = "p005" /\ Done /\ response.status = 200
     /\ req.parkSearch # "" /\ parkWarning = WARN_PARK_NAME /\ mode = "park")
    => /\ Len(features) = NumCandidates
       /\ \A i \in 1..NumCandidates : Contains(features[i].warnings, WARN_PARK_NAME)

(* what Places can do wrong: a non-success status, no answer before the     *)
(* abort timer, a body that cannot be parsed, a body of the wrong shape     *)
PlacesFailures ==
  {"httpError", "timeout", "unparsable", "malformed"}

(* C27: in part_005 and part_009, a POST with valid input whose Places      *)
(* lookups have failed is never answered with an error: the response is     *)
(* 200 with 3 features, and a request all of whose lookups failed is        *)
(* handled as one for which no park was found.                              *)
C27_PlacesFailureNotFatal ==
  (variant \in {"p005", "p009"} /\ Post /\ ValidInput
     /\ \E k \in 1..Len(placesLog) : placesLog[k].reply \in PlacesFailures)
    => /\ response.status \in {0, 200}
       /\ Done => (response.status = 200 /\ response.nfeatures = NumCandidates)
       /\ (\A k \in 1..Len(placesLog) : placesLog[k].reply \in PlacesFailures)
            => (park = "none" /\ mode # "park"
                  /\ \A k \in 1..Len(calls) : calls[k].leg \notin {"transit", "lap", "park"})

C27_Witness ==
  /\ variant = "p005" /\ Done /\ response.status = 200
  /\ Len(placesLog) = 2
  /\ placesLog[1].reply = "timeout" /\ placesLog[2].reply = "unparsable"
  /\ Len(features) = NumCandidates

(* C28: in part_007, requests that differ in a parameter the result        *)
(* depends on (origin, mode, distance, preferences, seed) do not share a    *)
(* cache key: a response served from the cache is the result the            *)
(* computation path builds for the request it is served to.                 *)
C28_CacheFaithful ==
  served.kind = "hit" =>
    /\ served.payload = payload_p007(served.rq)
    /\ \A i \in 1..Len(cache) :
         cache[i].value # payload_p007(served.rq) => cache[i].key # served.key

(* the requests that arrive in the cache specification *)
Arriving ==
  CacheRequests \cup {Filler(1)}

(* C29: in part_007, a cache read never returns an entry stored more than  *)
(* 10 minutes before the read: such an entry is removed from the cache by  *)
(* the read and the request takes the path of a miss.                      *)
C29_step ==
  \A rq \in Arriving :
    Arrive(rq) =>
      LET i == cacheIndex(cacheKey(rq))
          hit == pending' = pending
      IN /\ hit => (i # 0 /\ now - cache[i].storedAt <= 10 * 60 * 1000
                      /\ served'.payload = cache[i].value)
         /\ (i # 0 /\ now - cache[i].storedAt > 10 * 60 * 1000)
              => /\ ~hit
                 /\ pending' = Append(pending, rq)
                 /\ \A j \in 1..Len(cache') : cache'[j].key # cacheKey(rq)
                 /\ Len(cache') = Len(cache) - 1

C29_NoExpiredHit ==
  [][C29_step]_vars

C29_Witness ==
  /\ pc = "idle" /\ variant = "p007"
  /\ served.kind = "fresh" /\ now - CACHE_TTL_MS > 0
  /\ cache = <<>>
  /\ pending = <<served.rq>>

(* the places in the cache before a store whose key is gone after it *)
Evicted ==
  {i \in 1..Len(cache) : \A j \in 1..Len(cache') : cache'[j].key # cache[i].key}

StoreStep ==
  \E k \in 1..MaxPending : Complete(k)

(* C30 as stated: in part_007, after every store the cache holds at most   *)
(* 200 entries, and an entry that a store evicts is the oldest one held    *)
(* (none that stays was stored before it) and not the one just stored.     *)
C30_step ==
  StoreStep =>
    /\ Len(cache') <= 200
    /\ \E j \in 1..Len(cache') : cache'[j].key = served'.key /\ cache'[j].storedAt = now
    /\ \A i \in Evicted :
         /\ cache[i].key # served'.key
         /\ \A j \in 1..Len(cache') : cache'[j].storedAt >= cache[i].storedAt

C30_EvictsOldest ==
  [][C30_step]_vars

(* C30 amended: after every store the cache holds at most 200 entries, and *)
(* an entry that a store evicts is the one whose key was inserted first    *)
(* among the keys held, never the one just stored.                         *)
C30_amended_step ==
  StoreStep =>
    /\ Len(cache') <= 200
    /\ \E j \in 1..Len(cache') : cache'[j].key = served'.key /\ cache'[j].storedAt = now
    /\ \A i \in Evicted : i = 1 /\ cache[i].key # served'.key
    /\ Evicted # {} <=>
         (Len(cache) = 200 /\ \A i \in 1..Len(cache) : cache[i].key # served'.key)

C30_EvictsFirstInserted ==
  [][C30_amended_step]_vars

C30_Witness ==
  /\ pc = "idle" /\ variant = "p007"
  /\ served.kind = "fresh"
  /\ Len(cache) = CACHE_MAX
  /\ cache[CACHE_MAX].key = served.key
  /\ cache[1].key = cacheKey(Filler(2))

(* C31: in part_005, a feature's elevation profile is made of the Router's *)
(* altitudes, one sample each, when the Router supplied at least 3 of      *)
(* them, and is the synthetic profile otherwise; no profile holds samples  *)
(* of both origins.                                                        *)
C31_ProfileSource ==
  (calc.done /\ calc.fn \in {"elevProfile", "elevProfile_p005a"}) =>
    LET n == Len(calc.arg.profile)
    IN /\ n >= 3 =>
            /\ Len(calc.out) = n
            /\ \A i \in 1..n : calc.out[i].from = "router"
       /\ n < 3 =>
            /\ Len(calc.out) = 51
            /\ \A i \in 1..51 : calc.out[i].from = "synthetic"

(* the way appended in place k of a stitching, as it was appended *)
Appended(k) ==
  LET c == chunksOf(calc.arg.el)[calc.out.order[k].idx]
  IN IF calc.out.order[k].flip THEN Reverse(c) ELSE c

(* the polyline made of the first k ways appended: each way after the     *)
(* first without its first point                                           *)
RECURSIVE Joined(_)
Joined(k) ==
  IF k = 1 THEN Appended(1) ELSE Joined(k - 1) \o Tail(Appended(k))

(* squared distance between two points *)
Dist2(a, b) ==
  (a[1] - b[1]) * (a[1] - b[1]) + (a[2] - b[2]) * (a[2] - b[2])

(* a relation of at least two usable ways has been stitched *)
Stitched ==
  /\ calc.fn = "extractBoundaryLonLat" /\ calc.done
  /\ calc.arg.el.type = "relation"
  /\ Len(chunksOf(calc.arg.el)) >= 2

C34_StitchOrder ==
  Stitched =>
    LET chunks == chunksOf(calc.arg.el)
        n == Len(chunks)
        order == calc.out.order
    IN /\ Len(order) = n
       /\ {order[k].idx : k \in 1..n} = 1..n
       /\ order[1] = [idx |-> 1, flip |-> FALSE]
       /\ calc.out.out = Joined(n)
       /\ \A k \in 2..n :
            LET prev == Appended(k - 1)
                tail == prev[Len(prev)]
                c == chunks[order[k].idx]
                dHead == Dist2(c[1], tail)
                dTail == Dist2(c[Len(c)], tail)
            IN /\ order[k].flip <=> dTail < dHead
               /\ \A j \in (1..n) \ {order[m].idx : m \in 1..(k - 1)} :
                    /\ Dist2(chunks[j][1], tail) >= Min(dHead, dTail)
                    /\ Dist2(chunks[j][Len(chunks[j])], tail) >= Min(dHead, dTail)

(* C34: in part_005, stitching a relation of several ways ends, and uses   *)
(* each usable member way exactly once: the first usable way first, then   *)
(* each time the unused way whose head or tail is nearest to the tail of   *)
(* the polyline so far, reversed exactly when its tail is the nearer end.  *)
C34_StitchTerminates ==
  /\ [](C34_StitchOrder)
  /\ (calc.fn = "extractBoundaryLonLat") ~> calc.done

C34_Witness ==
  /\ Stitched
  /\ Len(calc.out.order) = 3
  /\ calc.out.order[2].flip /\ ~calc.out.order[3].flip
  /\ calc.out.order[2].idx = 3

(* the boundary, the area and the perimeter of element i of the argument *)
BoundaryOf(i) ==
  extractBoundaryLonLat(calc.arg.elements[i], StitchStart).out

AreaOf(i) ==
  polygonAreaMeters2(BoundaryOf(i))

PerimeterOf(i) ==
  polygonPerimeterMeters(BoundaryOf(i))

Picked ==
  calc.done /\ calc.fn = "pickBestParkFromElements" /\ ~calc.out.threw

(* C32: in part_005, a polygon whose area is below 25,000 m2 or whose      *)
(* perimeter is below 600 m, down to and including 0, is never the park    *)
(* that pickBestParkFromElements returns.                                  *)
C32_SmallExcluded ==
  (Picked /\ calc.out.park # 0) =>
    /\ AreaOf(calc.out.park) >= 25000
    /\ PerimeterOf(calc.out.park) >= 600

(* element i passes the filter of lines 830-831 *)
PassesFilter(i) ==
  /\ Len(BoundaryOf(i)) >= 3
  /\ ~(AreaOf(i) > 0 /\ AreaOf(i) < 25000)
  /\ ~(PerimeterOf(i) > 0 /\ PerimeterOf(i) < 600)

(* distanceToEntry - min(300, sqrt(area) / 10), in centimetres *)
ScoreOf(i) ==
  calc.arg.elements[i].dist * 100 - Min(300 * 100, Isqrt(AreaOf(i) * 100, 0, 46000))

(* C33: in part_005, the park picked is a candidate of minimal score       *)
(* distanceToEntry - min(300, sqrt(area)/10) among the elements that pass  *)
(* the filter, the first of them in iteration order when several share the *)
(* minimal score; no park is picked only when no element passes.           *)
C33_FirstMinimalScore ==
  Picked =>
    LET passing == {i \in 1..Len(calc.arg.elements) : PassesFilter(i)}
        best == calc.out.park
    IN IF passing = {}
         THEN best = 0
         ELSE /\ best \in passing
              /\ \A j \in passing : ScoreOf(best) <= ScoreOf(j)
              /\ \A j \in passing : j < best => ScoreOf(best) < ScoreOf(j)

C33_Witness ==
  /\ Picked
  /\ Len(calc.arg.elements) = 3
  /\ calc.out.park = 2
  /\ PassesFilter(1) /\ PassesFilter(3)
  /\ ScoreOf(3) = ScoreOf(2) /\ ScoreOf(1) > ScoreOf(2)

(* element i is a park fit to be selected *)
ValidPark(i) ==
  /\ ~extractBoundaryLonLat(calc.arg.elements[i], StitchStart).threw
  /\ Len(BoundaryOf(i)) >= 3
  /\ AreaOf(i) >= 25000
  /\ PerimeterOf(i) >= 600

(* C39: in part_005, an unusable element of a Places response is only left *)
(* out: pickBestParkFromElements raises no error, and when the response    *)
(* holds a valid park the lookup returns a park.                           *)
C39_UnusableElementSkipped ==
  /\ (calc.done /\ calc.fn = "pickBestParkFromElements") => ~calc.out.threw
  /\ (calc.done /\ calc.fn = "findNearestParkWithBoundary"
        /\ \E i \in 1..Len(calc.arg.elements) : ValidPark(i))
      => calc.out # 0

(* C35: in part_005, every Router call of a request after its first is     *)
(* sent only once the inter-call pause has elapsed since the previous      *)
(* call ended, be it the call of another candidate, the second leg of a    *)
(* park loop or the bare retry of a weighted request.                      *)
C35_PauseBetweenCalls ==
  variant = "p005" =>
    \A k \in 2..Len(calls) : calls[k].paused

(* C36: in part_005, the waypoints derived from the normalized origin are  *)
(* in geo order and are sent to the Router as they are, [lon, lat] of each *)
(* waypoint: the swap heuristic does not act on them a second time.        *)
C36_NormalizedOnce ==
  (calc.done /\ calc.fn = "safePoints") =>
    LET waypoints == buildOutAndBackWaypoints(calc.arg.p.a, calc.arg.p.b,
                                              calc.arg.targetMeters,
                                              calc.arg.bearingDeg)
    IN \A i \in 1..Len(waypoints) :
         calc.out[i] = <<waypoints[i][2], waypoints[i][1]>>

(* C37: in part_005 and part_009, a request handled without a Router key   *)
(* makes no outbound call, to the Router or to Places, and its 3 features  *)
(* are synthetic and carry the no-key warning, not the generic-failure or  *)
(* the rate-limit warning.                                                 *)
C37_NoKeyNoCalls ==
  (variant \in {"p005", "p009"} /\ ~ghKey) =>
    /\ calls = <<>>
    /\ placesLog = <<>>
    /\ (Post /\ ValidInput /\ Done /\ response.status = 200) =>
         /\ Len(features) = 3
         /\ \A i \in 1..3 :
              /\ features[i].source = "mock"
              /\ Contains(features[i].warnings, WARN_NO_KEY)
              /\ ~Contains(features[i].warnings, WARN_FAILED)
              /\ ~Contains(features[i].warnings, WARN_RATE)

(* C38: in part_005 and part_001, for every numeric directionSeed,         *)
(* negative ones included, the base bearing is one of the 8 entries of the *)
(* table of the elevation preference, and candidates 2 and 3 use the base  *)
(* bearing plus 35 and plus 70 degrees.                                    *)
C38_BearingFromTable ==
  (calc.done /\ calc.fn \in {"bearingOf", "baseBearing_p001"}) =>
    /\ calc.out[1] \in (IF calc.arg.pref = "hills"
                          THEN {25, 70, 115, 160, 205, 250, 295, 340}
                          ELSE {0, 90, 180, 270, 45, 135, 225, 315})
    /\ calc.out[2] = calc.out[1] + 35
    /\ calc.out[3] = calc.out[1] + 70

============================================================================
